---- MODULE Spec2Model ----
(***************************************************************************)
(* Model of the OSF preview renderer of src/commands/previewCommand.ts,    *)
(* and of the diagnostics, the formatter and the activation of the         *)
(* extension.                                                              *)
(*                                                                         *)
(* Text is a sequence of one-character strings.  HTML is a sequence of     *)
(* units: a one-character string is a character of text, a longer string   *)
(* is a piece of markup the renderer wrote itself ("<p>", "</strong>").    *)
(* An entity written by escapeHtml is text: "&amp;" is the five characters *)
(* & a m p ; so that escaping twice is visible as "&amp;amp;".             *)
(***************************************************************************)
EXTENDS Integers, Sequences, FiniteSets, TLC

VARIABLES
    text, result, op,                                   \* string functions
    lines, pos, html, paragraph, listItems, blockquoteLines, mdpc,
    document, theme, nonce, cspSource, metaBlock, blk, content, page, gpc,
    arg,                                                \* argument of a renderer
    editorText, configTheme, autoRefresh, panelHtml, panelOpen, click, event,
    calls, prevPage,                                    \* successive calls of generateHTML
    scanText, scanLine, scanChar, braceStack, inString, inComment, diagnostics, tracked,
    scanpc,                                             \* checkBlockStructure
    sheetData, loopMaxRow, loopMaxCol, sheetRow, sheetCol, sheetHtml, sheetpc
                                                        \* loops of generateSheetHTML
    ,lintingEnabled, provider, docs, collection, diagEvent \* DiagnosticsProvider
    ,activeEditor, panels, shownError, panelEvent       \* previewCommand and its panels
    ,fmtLines, fmtOriginal, fmtOptions, fmtEdits, fmtPasses, fmtpc  \* FormattingProvider
    ,hasShownWelcome, windows, activations, externalOpens  \* welcome message of activate

textVars == <<text, result, op>>
mdVars   == <<lines, pos, html, paragraph, listItems, blockquoteLines, mdpc>>
genVars  == <<document, theme, nonce, cspSource, metaBlock, blk, content, page, gpc>>
previewVars == <<editorText, configTheme, autoRefresh, panelHtml, panelOpen, click, event>>
callVars  == <<calls, prevPage>>
scanVars  == <<scanText, scanLine, scanChar, braceStack, inString, inComment, diagnostics,
               tracked, scanpc>>
sheetVars == <<sheetData, loopMaxRow, loopMaxCol, sheetRow, sheetCol, sheetHtml, sheetpc>>
diagVars  == <<lintingEnabled, provider, docs, collection, diagEvent>>
panelVars == <<activeEditor, panels, shownError, panelEvent>>
fmtVars   == <<fmtLines, fmtOriginal, fmtOptions, fmtEdits, fmtPasses, fmtpc>>
welcomeVars == <<hasShownWelcome, windows, activations, externalOpens>>
extVars   == <<scanVars, sheetVars, diagVars, panelVars, fmtVars, welcomeVars>>
otherVars == <<arg, previewVars, callVars, extVars>>
vars     == <<textVars, mdVars, genVars, otherVars>>

----------------------------------------------------------------------------
(* Bounds *)

MaxPieces == 4      \* pieces in an input text of the string functions
MaxLines  == 3      \* lines in an input of convertMarkdownToHTML
MaxBlocks == 2      \* blocks in a document given to generateHTML
MaxKeys   == 3      \* keys in the data of a sheet given to generateSheetHTML
MaxCalls  == 2      \* successive calls of generateHTML on one document

----------------------------------------------------------------------------
(* Sequence helpers *)

Min(S) == CHOOSE x \in S : \A y \in S : x <= y

\* The concatenation of the sequences ss[a], ..., ss[b].
RECURSIVE ConcatRange(_, _, _)
ConcatRange(ss, a, b) ==
    IF a > b THEN <<>>
    ELSE IF a = b THEN ss[a]
    ELSE ConcatRange(ss, a, (a + b) \div 2) \o ConcatRange(ss, (a + b) \div 2 + 1, b)

Concat(ss) == ConcatRange(ss, 1, Len(ss))

RECURSIVE JoinWith(_, _)
JoinWith(ss, sep) ==
    IF ss = <<>> THEN <<>>
    ELSE IF Len(ss) = 1 THEN ss[1]
    ELSE ss[1] \o sep \o JoinWith(Tail(ss), sep)

SeqsUpTo(S, n) == UNION {[1..k -> S] : k \in 0..n}

Count(s, u) == Cardinality({k \in 1..Len(s) : s[k] = u})

----------------------------------------------------------------------------
(* escapeHtml *)

AMP  == <<"&", "a", "m", "p", ";">>
LT   == <<"&", "l", "t", ";">>
GT   == <<"&", "g", "t", ";">>
QUOT == <<"&", "q", "u", "o", "t", ";">>
APOS == <<"&", "#", "3", "9", ";">>

\* String.prototype.replace(/c/g, rep) for a one-character pattern.
RECURSIVE ReplaceChar(_, _, _)
ReplaceChar(s, c, rep) ==
    IF s = <<>> THEN <<>>
    ELSE (IF Head(s) = c THEN rep ELSE <<Head(s)>>) \o ReplaceChar(Tail(s), c, rep)

escapeHtmlAmpLast(t) ==
    ReplaceChar(ReplaceChar(ReplaceChar(ReplaceChar(ReplaceChar(
        t, "<", LT), ">", GT), "\"", QUOT), "'", APOS), "&", AMP)

escapeHtml(t) ==
    ReplaceChar(ReplaceChar(ReplaceChar(ReplaceChar(ReplaceChar(
        t, "&", AMP), "<", LT), ">", GT), "\"", QUOT), "'", APOS)

----------------------------------------------------------------------------
(* renderInlineMarkdown *)

\* The grave accent of the code pattern /`(.+?)`/ : the lexer of the module
\* language accepts no grave accent inside a string, so "~" stands for it.
Backtick == "~"

\* The regular expression's "." : any unit but a line terminator.
IsDot(u) == u \notin {"\n", "\r"}

MatchAt(s, p, d) ==
    /\ p >= 1
    /\ p + Len(d) - 1 <= Len(s)
    /\ SubSeq(s, p, p + Len(d) - 1) = d

\* Where d(.+?)d opened at p can close: at least one unit between, all ".".
ClosersOf(s, p, d) ==
    {q \in (p + Len(d) + 1)..Len(s) :
        /\ MatchAt(s, q, d)
        /\ \A k \in (p + Len(d))..(q - 1) : IsDot(s[k])}

OpenersFrom(s, i, d) ==
    {p \in i..Len(s) : MatchAt(s, p, d) /\ ClosersOf(s, p, d) # {}}

\* s.replace(/d(.+?)d/g, open $1 close), scanning from unit i.
RECURSIVE ReplaceDelimFrom(_, _, _, _, _)
ReplaceDelimFrom(s, i, d, open, close) ==
    IF OpenersFrom(s, i, d) = {} THEN SubSeq(s, i, Len(s))
    ELSE LET p == Min(OpenersFrom(s, i, d))
             q == Min(ClosersOf(s, p, d))
         IN  SubSeq(s, i, p - 1) \o <<open>> \o SubSeq(s, p + Len(d), q - 1)
                \o <<close>> \o ReplaceDelimFrom(s, q + Len(d), d, open, close)

InlineSubst(e) ==
    LET b == ReplaceDelimFrom(e, 1, <<"*", "*">>, "<strong>", "</strong>")
        i == ReplaceDelimFrom(b, 1, <<"*">>, "<em>", "</em>")
    IN  ReplaceDelimFrom(i, 1, <<Backtick>>, "<code>", "</code>")

renderInlineMarkdownNoEscape(t) == InlineSubst(t)

renderInlineMarkdown(t) == InlineSubst(escapeHtml(t))

----------------------------------------------------------------------------
(* convertMarkdownToHTML *)

\* What String.prototype.trim and the pattern \s take for white space.
IsWs(u) == u \in {" ", "\t", "\n", "\r"}

RECURSIVE TrimStart(_)
TrimStart(s) ==
    IF s # <<>> /\ IsWs(Head(s)) THEN TrimStart(Tail(s)) ELSE s

RECURSIVE TrimEnd(_)
TrimEnd(s) ==
    IF s # <<>> /\ IsWs(s[Len(s)]) THEN TrimEnd(SubSeq(s, 1, Len(s) - 1)) ELSE s

Trim(s) == TrimEnd(TrimStart(s))

\* text.split(/\r?\n/): cut at every line feed, dropping a carriage return
\* that stands right before it.
RECURSIVE SplitFrom(_, _)
SplitFrom(t, cur) ==
    IF t = <<>> THEN <<cur>>
    ELSE IF Head(t) = "\n" THEN <<cur>> \o SplitFrom(Tail(t), <<>>)
    ELSE IF Head(t) = "\r" /\ Len(t) >= 2 /\ t[2] = "\n"
         THEN <<cur>> \o SplitFrom(Tail(Tail(t)), <<>>)
    ELSE SplitFrom(Tail(t), Append(cur, Head(t)))

Split(t) == SplitFrom(t, <<>>)

\* Number of "#" the line starts with.
RECURSIVE LeadingHashes(_)
LeadingHashes(s) ==
    IF s # <<>> /\ Head(s) = "#" THEN 1 + LeadingHashes(Tail(s)) ELSE 0

AllDot(s) == \A k \in 1..Len(s) : IsDot(s[k])

NoMatch == [ok |-> FALSE, level |-> 0, rest |-> <<>>]

\* The group (.+)$ that follows \s+ starting at unit i: \s+ takes the whole
\* run of white space, and (.+) must then reach the end of the line.
AfterSpaces(line, i, level) ==
    IF i > Len(line) \/ ~IsWs(line[i]) THEN NoMatch
    ELSE LET rest == TrimStart(SubSeq(line, i, Len(line)))
         IN  IF rest # <<>> /\ AllDot(rest)
             THEN [ok |-> TRUE, level |-> level, rest |-> rest]
             ELSE NoMatch

\* /^(#{1,3})\s+(.+)$/
headingMatch(line) ==
    LET k == LeadingHashes(line)
    IN  IF k \in 1..3 THEN AfterSpaces(line, k + 1, k) ELSE NoMatch

\* /^[-*]\s+(.+)$/
listMatch(line) ==
    IF line # <<>> /\ line[1] \in {"-", "*"} THEN AfterSpaces(line, 2, 0)
    ELSE NoMatch

\* /^>\s?(.+)$/
quoteMatch(line) ==
    IF line = <<>> \/ line[1] # ">" THEN NoMatch
    ELSE LET from == IF Len(line) >= 3 /\ IsWs(line[2]) THEN 3 ELSE 2
             rest == SubSeq(line, from, Len(line))
         IN  IF rest # <<>> /\ AllDot(rest)
             THEN [ok |-> TRUE, level |-> 0, rest |-> rest]
             ELSE NoMatch

HOpenFlat(level) == "<h1>"

HOpen(level)  == CASE level = 1 -> "<h1>"  [] level = 2 -> "<h2>"  [] OTHER -> "<h3>"
HClose(level) == CASE level = 1 -> "</h1>" [] level = 2 -> "</h2>" [] OTHER -> "</h3>"

\* The converter's locals: html and the three accumulators.
MdStart ==
    [html |-> <<>>, paragraph |-> <<>>, listItems |-> <<>>, blockquoteLines |-> <<>>]

flushParagraphRawJoin(st) ==
    IF Len(st.paragraph) > 0
    THEN [st EXCEPT
            !.html = @ \o <<"<p>">> \o renderInlineMarkdown(Concat(st.paragraph))
                       \o <<"</p>">>,
            !.paragraph = <<>>]
    ELSE st

flushParagraph(st) ==
    IF Len(st.paragraph) > 0
    THEN [st EXCEPT
            !.html = @ \o <<"<p>">>
                       \o renderInlineMarkdown(JoinWith(st.paragraph, <<" ">>))
                       \o <<"</p>">>,
            !.paragraph = <<>>]
    ELSE st

flushListSeparate(st) ==
    IF Len(st.listItems) > 0
    THEN [st EXCEPT
            !.html = @ \o Concat([k \in 1..Len(st.listItems) |->
                             <<"<ul>", "<li>">> \o renderInlineMarkdown(st.listItems[k])
                                                \o <<"</li>", "</ul>">>]),
            !.listItems = <<>>]
    ELSE st

flushList(st) ==
    IF Len(st.listItems) > 0
    THEN [st EXCEPT
            !.html = @ \o <<"<ul>">>
                       \o Concat([k \in 1..Len(st.listItems) |->
                             <<"<li>">> \o renderInlineMarkdown(st.listItems[k])
                                        \o <<"</li>">>])
                       \o <<"</ul>">>,
            !.listItems = <<>>]
    ELSE st

flushBlockquoteKeeps(st) ==
    IF Len(st.blockquoteLines) > 0
    THEN [st EXCEPT
            !.html = @ \o <<"<blockquote>">>
                       \o Concat([k \in 1..Len(st.blockquoteLines) |->
                             <<"<p>">> \o renderInlineMarkdown(st.blockquoteLines[k])
                                       \o <<"</p>">>])
                       \o <<"</blockquote>">>]
    ELSE st

flushBlockquote(st) ==
    IF Len(st.blockquoteLines) > 0
    THEN [st EXCEPT
            !.html = @ \o <<"<blockquote>">>
                       \o Concat([k \in 1..Len(st.blockquoteLines) |->
                             <<"<p>">> \o renderInlineMarkdown(st.blockquoteLines[k])
                                       \o <<"</p>">>])
                       \o <<"</blockquote>">>,
            !.blockquoteLines = <<>>]
    ELSE st

flushAll(st) == flushBlockquote(flushList(flushParagraph(st)))

\* One iteration of the loop over the lines.
MdLine(st, rawLine) ==
    LET line == Trim(rawLine)
        h    == headingMatch(line)
        l    == listMatch(line)
        q    == quoteMatch(line)
    IN  IF line = <<>> THEN flushAll(st)
        ELSE IF h.ok THEN
            [flushAll(st) EXCEPT
                !.html = @ \o <<HOpen(h.level)>> \o renderInlineMarkdown(h.rest)
                           \o <<HClose(h.level)>>]
        ELSE IF l.ok THEN
            [flushBlockquote(flushParagraph(st)) EXCEPT
                !.listItems = Append(@, l.rest)]
        ELSE IF q.ok THEN
            [flushList(flushParagraph(st)) EXCEPT
                !.blockquoteLines = Append(@, q.rest)]
        ELSE
            LET a == IF Len(st.listItems) > 0 THEN flushList(st) ELSE st
                b == IF Len(a.blockquoteLines) > 0 THEN flushBlockquote(a) ELSE a
            IN  [b EXCEPT !.paragraph = Append(@, line)]

RECURSIVE MdLoop(_, _)
MdLoop(st, ls) == IF ls = <<>> THEN st ELSE MdLoop(MdLine(st, Head(ls)), Tail(ls))

convertMarkdownToHTML(t) == flushAll(MdLoop(MdStart, Split(t))).html

----------------------------------------------------------------------------
(* Values of the document tree *)

\* The value undefined (an absent field, a missing type tag): a sequence
\* that no text equals.
Undefined == <<"undefined">>

\* An optional collection (content, bullets, cols, alignment, data, props)
\* that is absent is named in the block's field absent, and its own field then
\* holds the empty collection.
Has(block, field) == field \notin block.absent

\* JavaScript truthiness of a string-valued field: neither absent nor "".
Truthy(x) == x # Undefined /\ x # <<>>

\* x || d
OrElse(x, d) == IF Truthy(x) THEN x ELSE d

TMeta    == <<"m", "e", "t", "a">>
TDoc     == <<"d", "o", "c">>
TSlide   == <<"s", "l", "i", "d", "e">>
TSheet   == <<"s", "h", "e", "e", "t">>
TTable   == <<"t", "a", "b", "l", "e">>
TChart   == <<"c", "h", "a", "r", "t">>
TDiagram == <<"d", "i", "a", "g", "r", "a", "m">>
TOsfcode == <<"o", "s", "f", "c", "o", "d", "e">>

UnknownText         == <<"u", "n", "k", "n", "o", "w", "n">>
UntitledSlideText   == <<"U", "n", "t", "i", "t", "l", "e", "d", " ", "S", "l", "i", "d", "e">>
TitleAndContentText == <<"T", "i", "t", "l", "e", "A", "n", "d", "C", "o", "n", "t", "e", "n", "t">>
SheetText           == <<"S", "h", "e", "e", "t">>
BorderedText        == <<"b", "o", "r", "d", "e", "r", "e", "d">>
LeftText            == <<"l", "e", "f", "t">>
OsfPreviewText      == <<"O", "S", "F", " ", "P", "r", "e", "v", "i", "e", "w">>
UntitledDocumentText ==
    <<"U", "n", "t", "i", "t", "l", "e", "d", " ", "D", "o", "c", "u", "m", "e", "n", "t">>

Digits == <<"0", "1", "2", "3", "4", "5", "6", "7", "8", "9">>

\* String(n) for a natural number.
RECURSIVE NumToText(_)
NumToText(n) ==
    IF n < 10 THEN <<Digits[n + 1]>>
    ELSE NumToText(n \div 10) \o <<Digits[(n % 10) + 1]>>

----------------------------------------------------------------------------
(* renderRuns, runsToText, renderSlideContentHTML *)

\* A run is [kind |-> "string", text] (typeof run === 'string') or an object
\* [kind |-> "object", type, text, url, alt, bold, italic, underline, strike,
\* declared]; declared lists the flags that are set in the order in which the
\* object declares them.
isLinkRun(run)  == run.kind = "object" /\ run.type = "link"
isImageRun(run) == run.kind = "object" /\ run.type = "image"

WrapFlag(c, flag) ==
    CASE flag = "bold"      -> <<"<strong>">> \o c \o <<"</strong>">>
      [] flag = "italic"    -> <<"<em>">> \o c \o <<"</em>">>
      [] flag = "underline" -> <<"<span class=\"underline\">">> \o c \o <<"</span>">>
      [] flag = "strike"    -> <<"<span class=\"strike\">">> \o c \o <<"</span>">>

RECURSIVE WrapInOrder(_, _)
WrapInOrder(c, order) ==
    IF order = <<>> THEN c ELSE WrapInOrder(WrapFlag(c, Head(order)), Tail(order))

renderRunDeclaredOrder(run) ==
    IF run.kind = "string" THEN escapeHtml(run.text)
    ELSE IF isLinkRun(run) THEN
        <<"<a class=\"link\" href=\"">> \o escapeHtml(OrElse(run.url, <<"#">>))
            \o <<"\" target=\"_blank\" rel=\"noopener noreferrer\">">>
            \o escapeHtml(OrElse(run.text, <<>>)) \o <<"</a>">>
    ELSE IF isImageRun(run) THEN
        <<"<img src=\"">> \o escapeHtml(OrElse(run.url, <<>>)) \o <<"\" alt=\"">>
            \o escapeHtml(OrElse(run.alt, <<>>)) \o <<"\" />">>
    ELSE WrapInOrder(escapeHtml(OrElse(run.text, <<>>)), run.declared)

renderRun(run) ==
    IF run.kind = "string" THEN escapeHtml(run.text)
    ELSE IF isLinkRun(run) THEN
        <<"<a class=\"link\" href=\"">> \o escapeHtml(OrElse(run.url, <<"#">>))
            \o <<"\" target=\"_blank\" rel=\"noopener noreferrer\">">>
            \o escapeHtml(OrElse(run.text, <<>>)) \o <<"</a>">>
    ELSE IF isImageRun(run) THEN
        <<"<img src=\"">> \o escapeHtml(OrElse(run.url, <<>>)) \o <<"\" alt=\"">>
            \o escapeHtml(OrElse(run.alt, <<>>)) \o <<"\" />">>
    ELSE
        LET c0 == escapeHtml(OrElse(run.text, <<>>))
            c1 == IF run.bold THEN <<"<strong>">> \o c0 \o <<"</strong>">> ELSE c0
            c2 == IF run.italic THEN <<"<em>">> \o c1 \o <<"</em>">> ELSE c1
            c3 == IF run.underline
                  THEN <<"<span class=\"underline\">">> \o c2 \o <<"</span>">> ELSE c2
        IN  IF run.strike
            THEN <<"<span class=\"strike\">">> \o c3 \o <<"</span>">> ELSE c3

renderRuns(runs) == Concat([k \in 1..Len(runs) |-> renderRun(runs[k])])

runToTextLinkUrl(run) ==
    IF run.kind = "string" THEN run.text
    ELSE IF isLinkRun(run) THEN OrElse(run.url, <<>>)
    ELSE IF isImageRun(run) THEN OrElse(run.alt, <<>>)
    ELSE OrElse(run.text, <<>>)

runToText(run) ==
    IF run.kind = "string" THEN run.text
    ELSE IF isLinkRun(run) THEN OrElse(run.text, <<>>)
    ELSE IF isImageRun(run) THEN OrElse(run.alt, <<>>)
    ELSE OrElse(run.text, <<>>)

runsToText(runs) == Concat([k \in 1..Len(runs) |-> runToText(runs[k])])

\* One iteration of the loop over the content blocks.
renderContentBlock(block) ==
    CASE block.type = "unordered_list" ->
            <<"<ul class=\"slide-bullets\">">>
              \o Concat([k \in 1..Len(block.items) |->
                    <<"<li>">> \o renderRuns(block.items[k].content) \o <<"</li>">>])
              \o <<"</ul>">>
      [] block.type = "ordered_list" ->
            <<"<ol class=\"slide-bullets\">">>
              \o Concat([k \in 1..Len(block.items) |->
                    <<"<li>">> \o renderRuns(block.items[k].content) \o <<"</li>">>])
              \o <<"</ol>">>
      [] block.type = "blockquote" ->
            <<"<blockquote>">>
              \o Concat([k \in 1..Len(block.content) |->
                    <<"<p>">> \o renderRuns(block.content[k].content) \o <<"</p>">>])
              \o <<"</blockquote>">>
      [] block.type = "paragraph" ->
            LET rawText == Trim(runsToText(block.content))
                h       == headingMatch(rawText)
            IN  IF h.ok
                THEN <<HOpen(h.level)>> \o renderInlineMarkdown(h.rest)
                       \o <<HClose(h.level)>>
                ELSE <<"<p>">> \o renderRuns(block.content) \o <<"</p>">>
      [] block.type = "code" ->
            <<"<pre><code>">> \o escapeHtml(block.content) \o <<"</code></pre>">>
      [] block.type = "image" ->
            <<"<img src=\"">> \o escapeHtml(block.url) \o <<"\" alt=\"">>
              \o escapeHtml(block.alt) \o <<"\" />">>
      [] OTHER -> <<>>

renderSlideContentHTML(contentBlocks) ==
    Concat([k \in 1..Len(contentBlocks) |-> renderContentBlock(contentBlocks[k])])

----------------------------------------------------------------------------
(* The block generators *)

generateDocHTML(block) ==
    <<"<div class=\"block block-doc\">">>
      \o (IF Truthy(block.content) THEN convertMarkdownToHTML(block.content) ELSE <<>>)
      \o <<"</div>">>

generateSlideHTMLBoth(block) ==
    LET title  == OrElse(block.title, UntitledSlideText)
        layout == OrElse(block.layout, TitleAndContentText)
    IN  <<"<div class=\"block block-slide layout-">> \o escapeHtml(layout) \o <<"\">">>
          \o <<"<h2 class=\"slide-title\">">> \o escapeHtml(title) \o <<"</h2>">>
          \o (IF Has(block, "content") /\ Len(block.content) > 0
              THEN <<"<div class=\"slide-content\">">>
                     \o renderSlideContentHTML(block.content) \o <<"</div>">>
              ELSE <<>>)
          \o (IF Has(block, "bullets") /\ Len(block.bullets) > 0
              THEN <<"<ul class=\"slide-bullets\">">>
                     \o Concat([k \in 1..Len(block.bullets) |->
                           <<"<li>">> \o escapeHtml(block.bullets[k]) \o <<"</li>">>])
                     \o <<"</ul>">>
              ELSE <<>>)
          \o <<"</div>">>

generateSlideHTML(block) ==
    LET title  == OrElse(block.title, UntitledSlideText)
        layout == OrElse(block.layout, TitleAndContentText)
    IN  <<"<div class=\"block block-slide layout-">> \o escapeHtml(layout) \o <<"\">">>
          \o <<"<h2 class=\"slide-title\">">> \o escapeHtml(title) \o <<"</h2>">>
          \o (IF Has(block, "content") /\ Len(block.content) > 0
              THEN <<"<div class=\"slide-content\">">>
                     \o renderSlideContentHTML(block.content) \o <<"</div>">>
              ELSE IF Has(block, "bullets") /\ Len(block.bullets) > 0
              THEN <<"<ul class=\"slide-bullets\">">>
                     \o Concat([k \in 1..Len(block.bullets) |->
                           <<"<li>">> \o escapeHtml(block.bullets[k]) \o <<"</li>">>])
                     \o <<"</ul>">>
              ELSE <<>>)
          \o <<"</div>">>

\* Number(s) for the parts of a sheet key: 0 for the empty string, the value
\* of a string of digits; NotANumber for anything else.
NotANumber == -1

RECURSIVE DigitsValue(_)
DigitsValue(s) ==
    IF s = <<>> THEN 0
    ELSE 10 * DigitsValue(SubSeq(s, 1, Len(s) - 1))
           + (CHOOSE d \in 0..9 : Digits[d + 1] = s[Len(s)])

IsDigit(u) == \E d \in 1..10 : Digits[d] = u

\* Number.POSITIVE_INFINITY: above every number a text of digits of the
\* model denotes, so that r <= Infinity holds for every r.
Infinity == 1000000

InfinityText == <<"I", "n", "f", "i", "n", "i", "t", "y">>

NumberOf(s) ==
    LET t == Trim(s)
    IN  IF \A k \in 1..Len(t) : IsDigit(t[k]) THEN DigitsValue(t)
        ELSE IF t = InfinityText THEN Infinity
        ELSE NotANumber

\* k.split(',')
RECURSIVE SplitComma(_, _)
SplitComma(k, cur) ==
    IF k = <<>> THEN <<cur>>
    ELSE IF Head(k) = "," THEN <<cur>> \o SplitComma(Tail(k), <<>>)
    ELSE SplitComma(Tail(k), Append(cur, Head(k)))

\* c[i] || 1 : 1 for a missing part, 0 and NaN.
CoordOr1(key, i) ==
    LET parts == SplitComma(key, <<>>)
    IN  IF i > Len(parts) THEN 1
        ELSE IF NumberOf(parts[i]) \in {0, NotANumber} THEN 1
        ELSE NumberOf(parts[i])

Max(S) == CHOOSE x \in S : \A y \in S : x >= y

\* block.data is a set of <<key, value>> pairs with distinct keys.
DataKeys(data) == {kv[1] : kv \in data}

\* block.data?.[`${r},${c}`], then value === undefined ? '' : String(value)
CellText(data, r, c) ==
    LET key == NumToText(r) \o <<",">> \o NumToText(c)
    IN  IF key \in DataKeys(data)
        THEN (CHOOSE kv \in data : kv[1] = key)[2]
        ELSE <<>>

generateSheetHTMLDeclaredCols(block) ==
    LET name == OrElse(block.name, SheetText)
        cols == IF Has(block, "cols") THEN block.cols ELSE <<>>
        hasData == Has(block, "data") /\ block.data # {}
        maxRow == Max({CoordOr1(k, 1) : k \in DataKeys(block.data)})
        maxCol == IF Len(cols) > 1 THEN Len(cols) ELSE 1
    IN  <<"<div class=\"block block-sheet\">">>
          \o <<"<h3 class=\"sheet-name\">">> \o escapeHtml(name) \o <<"</h3>">>
          \o <<"<table class=\"sheet-table\">">>
          \o (IF Len(cols) > 0
              THEN <<"<thead><tr>">>
                     \o Concat([k \in 1..Len(cols) |->
                           <<"<th>">> \o escapeHtml(cols[k]) \o <<"</th>">>])
                     \o <<"</tr></thead>">>
              ELSE <<>>)
          \o <<"<tbody>">>
          \o (IF hasData
              THEN Concat([r \in 1..maxRow |->
                      <<"<tr>">>
                        \o Concat([c \in 1..maxCol |->
                              <<"<td>">> \o escapeHtml(CellText(block.data, r, c))
                                         \o <<"</td>">>])
                        \o <<"</tr>">>])
              ELSE <<"<tr><td class=\"sheet-empty\" colspan=\"">>
                     \o NumToText(IF Len(cols) > 1 THEN Len(cols) ELSE 1)
                     \o <<"\">No sheet data</td></tr>">>)
          \o <<"</tbody></table>">>
          \o <<"</div>">>

generateSheetHTML(block) ==
    LET name == OrElse(block.name, SheetText)
        cols == IF Has(block, "cols") THEN block.cols ELSE <<>>
        hasData == Has(block, "data") /\ block.data # {}
        maxRow == Max({CoordOr1(k, 1) : k \in DataKeys(block.data)})
        maxCol == Max({CoordOr1(k, 2) : k \in DataKeys(block.data)})
    IN  <<"<div class=\"block block-sheet\">">>
          \o <<"<h3 class=\"sheet-name\">">> \o escapeHtml(name) \o <<"</h3>">>
          \o <<"<table class=\"sheet-table\">">>
          \o (IF Len(cols) > 0
              THEN <<"<thead><tr>">>
                     \o Concat([k \in 1..Len(cols) |->
                           <<"<th>">> \o escapeHtml(cols[k]) \o <<"</th>">>])
                     \o <<"</tr></thead>">>
              ELSE <<>>)
          \o <<"<tbody>">>
          \o (IF hasData
              THEN Concat([r \in 1..maxRow |->
                      <<"<tr>">>
                        \o Concat([c \in 1..maxCol |->
                              <<"<td>">> \o escapeHtml(CellText(block.data, r, c))
                                         \o <<"</td>">>])
                        \o <<"</tr>">>])
              ELSE <<"<tr><td class=\"sheet-empty\" colspan=\"">>
                     \o NumToText(IF Len(cols) > 1 THEN Len(cols) ELSE 1)
                     \o <<"\">No sheet data</td></tr>">>)
          \o <<"</tbody></table>">>
          \o <<"</div>">>

\* block.alignment?.[index] || 'left'
AlignOf(block, index) ==
    IF ~Has(block, "alignment") \/ index > Len(block.alignment) THEN LeftText
    ELSE OrElse(block.alignment[index], LeftText)

generateTableHTML(block) ==
    <<"<div class=\"block block-table\">">>
      \o (IF Truthy(block.caption)
          THEN <<"<p class=\"table-caption\">">> \o escapeHtml(block.caption) \o <<"</p>">>
          ELSE <<>>)
      \o <<"<table class=\"osf-table ">> \o escapeHtml(OrElse(block.style, BorderedText))
      \o <<"\">">>
      \o <<"<thead><tr>">>
      \o Concat([k \in 1..Len(block.headers) |->
            <<"<th style=\"text-align: ">> \o AlignOf(block, k) \o <<";\">">>
               \o escapeHtml(block.headers[k]) \o <<"</th>">>])
      \o <<"</tr></thead><tbody>">>
      \o Concat([r \in 1..Len(block.rows) |->
            <<"<tr>">>
              \o Concat([k \in 1..Len(block.rows[r]) |->
                    <<"<td style=\"text-align: ">> \o AlignOf(block, k) \o <<";\">">>
                       \o escapeHtml(block.rows[r][k]) \o <<"</td>">>])
              \o <<"</tr>">>])
      \o <<"</tbody></table></div>">>

generateChartHTML(block) ==
    <<"<div class=\"block block-chart\">">>
      \o <<"<h3 class=\"chart-title\">">> \o escapeHtml(block.title) \o <<"</h3>">>
      \o <<"<p class=\"chart-meta\">Chart type: ">> \o escapeHtml(block.chartType)
      \o <<"</p>">>
      \o <<"<p class=\"chart-meta\">Series: ">> \o NumToText(Len(block.data)) \o <<"</p>">>
      \o <<"</div>">>

generateDiagramHTML(block) ==
    <<"<div class=\"block block-diagram\">">>
      \o (IF Truthy(block.title)
          THEN <<"<h3 class=\"diagram-title\">">> \o escapeHtml(block.title) \o <<"</h3>">>
          ELSE <<>>)
      \o <<"<pre class=\"diagram-code\">">> \o escapeHtml(block.code) \o <<"</pre>">>
      \o <<"</div>">>

generateCodeHTML(block) ==
    <<"<div class=\"block block-code\">">>
      \o (IF Truthy(block.caption)
          THEN <<"<p class=\"code-caption\">">> \o escapeHtml(block.caption) \o <<"</p>">>
          ELSE <<>>)
      \o <<"<pre><code class=\"language-">> \o escapeHtml(block.language) \o <<"\">">>
      \o escapeHtml(block.code) \o <<"</code></pre>">>
      \o <<"</div>">>

generateUnknownHTMLRaw(block) ==
    LET fallbackType == IF block.type = Undefined THEN UnknownText ELSE block.type
    IN  <<"<div class=\"block block-">> \o fallbackType
          \o <<"\">Block type: ">> \o fallbackType \o <<"</div>">>

\* The default branch of the switch.
generateUnknownHTML(block) ==
    LET fallbackType == IF block.type = Undefined THEN UnknownText ELSE block.type
    IN  <<"<div class=\"block block-">> \o escapeHtml(fallbackType)
          \o <<"\">Block type: ">> \o escapeHtml(fallbackType) \o <<"</div>">>

\* The switch on block.type: what one block adds to content.
BlockFragment(block) ==
    CASE block.type = TMeta    -> <<>>
      [] block.type = TDoc     -> generateDocHTML(block)
      [] block.type = TSlide   -> generateSlideHTML(block)
      [] block.type = TSheet   -> generateSheetHTML(block)
      [] block.type = TTable   -> generateTableHTML(block)
      [] block.type = TChart   -> generateChartHTML(block)
      [] block.type = TDiagram -> generateDiagramHTML(block)
      [] block.type = TOsfcode -> generateCodeHTML(block)
      [] OTHER                 -> generateUnknownHTML(block)

----------------------------------------------------------------------------
(* Exceptions: the dereferences of the renderers that raise a TypeError *)

\* text.replace(...) on undefined.
escapeHtmlThrows(t) == t = Undefined

\* renderRuns: the callback of map, for one run.
renderRunThrows(run) ==
    IF run.kind = "string" THEN escapeHtmlThrows(run.text)
    ELSE IF isLinkRun(run) THEN
        escapeHtmlThrows(OrElse(run.text, <<>>)) \/ escapeHtmlThrows(OrElse(run.url, <<"#">>))
    ELSE IF isImageRun(run) THEN
        escapeHtmlThrows(OrElse(run.alt, <<>>)) \/ escapeHtmlThrows(OrElse(run.url, <<>>))
    ELSE escapeHtmlThrows(OrElse(run.text, <<>>))

renderRunsThrows(runs) == \E k \in 1..Len(runs) : renderRunThrows(runs[k])

renderContentBlockThrows(block) ==
    CASE block.type \in {"unordered_list", "ordered_list"} ->
            \E k \in 1..Len(block.items) : renderRunsThrows(block.items[k].content)
      [] block.type = "blockquote" ->
            \E k \in 1..Len(block.content) : renderRunsThrows(block.content[k].content)
      [] block.type = "paragraph" ->
            /\ ~headingMatch(Trim(runsToText(block.content))).ok
            /\ renderRunsThrows(block.content)
      [] block.type = "code" -> escapeHtmlThrows(block.content)
      [] block.type = "image" -> escapeHtmlThrows(block.url) \/ escapeHtmlThrows(block.alt)
      [] OTHER -> FALSE

renderSlideContentHTMLThrows(contentBlocks) ==
    \E k \in 1..Len(contentBlocks) : renderContentBlockThrows(contentBlocks[k])

\* block.content is tested before convertMarkdownToHTML splits it.
generateDocHTMLThrows(block) == FALSE

generateSlideHTMLThrowsNoDefault(block) ==
    \/ escapeHtmlThrows(OrElse(block.layout, TitleAndContentText))
    \/ escapeHtmlThrows(block.title)
    \/ IF Has(block, "content") /\ Len(block.content) > 0
       THEN renderSlideContentHTMLThrows(block.content)
       ELSE IF Has(block, "bullets") /\ Len(block.bullets) > 0
       THEN \E k \in 1..Len(block.bullets) : escapeHtmlThrows(block.bullets[k])
       ELSE FALSE

generateSlideHTMLThrows(block) ==
    \/ escapeHtmlThrows(OrElse(block.layout, TitleAndContentText))
    \/ escapeHtmlThrows(OrElse(block.title, UntitledSlideText))
    \/ IF Has(block, "content") /\ Len(block.content) > 0
       THEN renderSlideContentHTMLThrows(block.content)
       ELSE IF Has(block, "bullets") /\ Len(block.bullets) > 0
       THEN \E k \in 1..Len(block.bullets) : escapeHtmlThrows(block.bullets[k])
       ELSE FALSE

generateSheetHTMLThrows(block) ==
    \/ escapeHtmlThrows(OrElse(block.name, SheetText))
    \/ /\ Has(block, "cols")
       /\ \E k \in 1..Len(block.cols) : escapeHtmlThrows(block.cols[k])

\* block.headers.forEach, block.rows.forEach and row.cells.forEach are not
\* guarded; block.alignment?.[index] is.
generateTableHTMLThrows(block) ==
    \/ Truthy(block.caption) /\ escapeHtmlThrows(block.caption)
    \/ escapeHtmlThrows(OrElse(block.style, BorderedText))
    \/ ~Has(block, "headers")
    \/ \E k \in 1..Len(block.headers) : escapeHtmlThrows(block.headers[k])
    \/ ~Has(block, "rows")
    \/ \E r \in 1..Len(block.rows) :
          \E k \in 1..Len(block.rows[r]) : escapeHtmlThrows(block.rows[r][k])

generateChartHTMLThrows(block) ==
    \/ escapeHtmlThrows(block.title)
    \/ escapeHtmlThrows(block.chartType)
    \/ ~Has(block, "data")

generateDiagramHTMLThrows(block) ==
    \/ Truthy(block.title) /\ escapeHtmlThrows(block.title)
    \/ escapeHtmlThrows(block.code)

generateCodeHTMLThrows(block) ==
    \/ Truthy(block.caption) /\ escapeHtmlThrows(block.caption)
    \/ escapeHtmlThrows(block.language)
    \/ escapeHtmlThrows(block.code)

\* The switch on block.type: whether rendering the block raises.
BlockThrows(block) ==
    CASE block.type = TMeta    -> FALSE
      [] block.type = TDoc     -> generateDocHTMLThrows(block)
      [] block.type = TSlide   -> generateSlideHTMLThrows(block)
      [] block.type = TSheet   -> generateSheetHTMLThrows(block)
      [] block.type = TTable   -> generateTableHTMLThrows(block)
      [] block.type = TChart   -> generateChartHTMLThrows(block)
      [] block.type = TDiagram -> generateDiagramHTMLThrows(block)
      [] block.type = TOsfcode -> generateCodeHTMLThrows(block)
      [] OTHER                 ->
            escapeHtmlThrows(IF block.type = Undefined THEN UnknownText ELSE block.type)

FindMetaLast(blocks) ==
    IF \E k \in 1..Len(blocks) : blocks[k].type = TMeta
    THEN Max({k \in 1..Len(blocks) : blocks[k].type = TMeta})
    ELSE 0

\* document.blocks.find(block => block.type === 'meta'): its position, 0 if none.
FindMeta(blocks) ==
    IF \E k \in 1..Len(blocks) : blocks[k].type = TMeta
    THEN Min({k \in 1..Len(blocks) : blocks[k].type = TMeta})
    ELSE 0

\* metaBlock?.props?.[key]
MetaProp(blocks, m, key) ==
    IF m = 0 \/ ~Has(blocks[m], "props") THEN Undefined ELSE blocks[m].props[key]

getThemeCSS(themeName) == "<theme css>"

\* The template literal of the return statement.
PageOf(blocks, m, contentHtml, themeName, nonceText, cspSourceText) ==
    LET title  == MetaProp(blocks, m, "title")
        author == MetaProp(blocks, m, "author")
        date   == MetaProp(blocks, m, "date")
    IN  <<"<!DOCTYPE html><html lang=\"en\"><head>">>
          \o <<"<meta http-equiv=\"Content-Security-Policy\" content=\"">>
          \o <<"default-src 'none'; img-src ">> \o cspSourceText
          \o <<" https: data:; style-src 'unsafe-inline'; script-src 'nonce-">>
          \o nonceText \o <<"';">> \o <<"\">">>
          \o <<"<title>">>
          \o escapeHtml(IF Truthy(title) THEN title ELSE OsfPreviewText)
          \o <<"</title>">>
          \o <<"<style>", getThemeCSS(themeName), "</style>">>
          \o <<"</head><body><div class=\"header\">">>
          \o <<"<h1>">>
          \o escapeHtml(IF Truthy(title) THEN title ELSE UntitledDocumentText)
          \o <<"</h1>">>
          \o (IF Truthy(author)
              THEN <<"<p class=\"author\">By ">> \o escapeHtml(author) \o <<"</p>">>
              ELSE <<>>)
          \o (IF Truthy(date)
              THEN <<"<p class=\"date\">">> \o escapeHtml(date) \o <<"</p>">>
              ELSE <<>>)
          \o <<"</div><div class=\"content\">">>
          \o contentHtml
          \o <<"</div><div class=\"footer\">">>
          \o <<"<button nonce=\"">> \o nonceText \o <<"\" onclick=\"refresh()\">">>
          \o <<"Refresh</button></div>">>
          \o <<"<script nonce=\"">> \o nonceText \o <<"\">">>
          \o <<"const vscode = acquireVsCodeApi(); function refresh() { vscode.postMessage({ command: 'refresh' }); }">>
          \o <<"</script></body></html>">>

ContentOf(blocks) == Concat([k \in 1..Len(blocks) |-> BlockFragment(blocks[k])])

generateHTML(doc, themeName, nonceText, cspSourceText) ==
    PageOf(doc, FindMeta(doc), ContentOf(doc), themeName, nonceText, cspSourceText)

----------------------------------------------------------------------------
(* The string functions applied to bounded inputs *)

TextPieces ==
    {<<"&">>, <<"<">>, <<">">>, <<"\"">>, <<"'">>, <<"a">>, <<"*">>,
     <<"*", "*">>, <<Backtick>>}

TextInputs == {Concat(ps) : ps \in SeqsUpTo(TextPieces, MaxPieces)}

IdleText == text = <<>> /\ result = <<>> /\ op = "idle"
IdleMd ==
    /\ lines = <<>> /\ pos = 0 /\ html = <<>>
    /\ paragraph = <<>> /\ listItems = <<>> /\ blockquoteLines = <<>>
    /\ mdpc = "idle"
IdleGen ==
    /\ document = <<>> /\ theme = "default" /\ nonce = <<>> /\ cspSource = <<>>
    /\ metaBlock = 0 /\ blk = 0 /\ content = <<>> /\ page = <<>>
    /\ gpc = "idle"
NoArg == [kind |-> "none"]
IdlePreview ==
    /\ editorText = "none" /\ configTheme = "default" /\ autoRefresh = TRUE
    /\ panelHtml = <<>> /\ panelOpen = FALSE /\ click = "none" /\ event = "none"
IdleCalls == calls = 0 /\ prevPage = <<>>
IdleScan ==
    /\ scanText = <<>> /\ scanLine = 0 /\ scanChar = 0 /\ braceStack = <<>>
    /\ inString = FALSE /\ inComment = FALSE /\ diagnostics = <<>> /\ tracked = {}
    /\ scanpc = "idle"
IdleSheet ==
    /\ sheetData = {} /\ loopMaxRow = 0 /\ loopMaxCol = 0 /\ sheetRow = 0 /\ sheetCol = 0
    /\ sheetHtml = <<>> /\ sheetpc = "idle"
IdleDiag ==
    /\ lintingEnabled = TRUE /\ provider = "idle" /\ docs = <<>> /\ collection = <<>>
    /\ diagEvent = "none"
IdlePanels ==
    /\ activeEditor = "none" /\ panels = <<>> /\ shownError = <<>>
    /\ panelEvent = [kind |-> "none", ran |-> {}]
IdleFmt ==
    /\ fmtLines = <<>> /\ fmtOriginal = <<>> /\ fmtOptions = [insertSpaces |-> TRUE, tabSize |-> 0]
    /\ fmtEdits = <<>> /\ fmtPasses = 0 /\ fmtpc = "idle"
IdleWelcome ==
    /\ hasShownWelcome = "unset" /\ windows = <<>> /\ activations = <<>> /\ externalOpens = 0
IdleExt == IdleScan /\ IdleSheet /\ IdleDiag /\ IdlePanels /\ IdleFmt /\ IdleWelcome
IdleOther == arg = NoArg /\ IdlePreview /\ IdleCalls /\ IdleExt

TextInit ==
    /\ text \in TextInputs
    /\ result = <<>>
    /\ op = "none"
    /\ IdleMd
    /\ IdleGen
    /\ IdleOther

CallEscapeHtml ==
    /\ op = "none"
    /\ result' = escapeHtml(text)
    /\ op' = "escapeHtml"
    /\ UNCHANGED <<text, mdVars, genVars, otherVars>>

CallRenderInlineMarkdown ==
    /\ op = "none"
    /\ result' = renderInlineMarkdown(text)
    /\ op' = "renderInlineMarkdown"
    /\ UNCHANGED <<text, mdVars, genVars, otherVars>>

TextNext == CallEscapeHtml \/ CallRenderInlineMarkdown

SpecText == TextInit /\ [][TextNext]_vars

----------------------------------------------------------------------------
(* convertMarkdownToHTML, one line at a time *)

LinePool ==
    { <<>>,
      <<"-", " ", "a">>,
      <<"*", " ", "b">>,
      <<"#", " ", "T">>,
      <<"#", "#", " ", "U">>,
      <<"#", "#", "#", " ", " ", "V">>,
      <<"#", "#", "#", "#", " ", "w">>,
      <<">", " ", "q">>,
      <<"x">>,
      <<" ", "y", "\r">> }

MdInputs == {JoinWith(ls, <<"\n">>) : ls \in SeqsUpTo(LinePool, MaxLines) \ {<<>>}}

MdState ==
    [html |-> html, paragraph |-> paragraph, listItems |-> listItems,
     blockquoteLines |-> blockquoteLines]

MdAssign(st) ==
    /\ html' = st.html
    /\ paragraph' = st.paragraph
    /\ listItems' = st.listItems
    /\ blockquoteLines' = st.blockquoteLines

\* After lines 314-318: the text is split, the locals are empty.
MdInit ==
    /\ text \in MdInputs
    /\ result = <<>>
    /\ op = "idle"
    /\ lines = Split(text)
    /\ pos = 0
    /\ html = <<>>
    /\ paragraph = <<>>
    /\ listItems = <<>>
    /\ blockquoteLines = <<>>
    /\ mdpc = "loop"
    /\ IdleGen
    /\ IdleOther

\* The body of the for loop, for the next line.
MdProcessLine ==
    /\ mdpc = "loop"
    /\ pos < Len(lines)
    /\ MdAssign(MdLine(MdState, lines[pos + 1]))
    /\ pos' = pos + 1
    /\ UNCHANGED <<textVars, lines, mdpc, genVars, otherVars>>

\* Lines 385-389: the flushes at the end of the input, and the return.
MdReturn ==
    /\ mdpc = "loop"
    /\ pos = Len(lines)
    /\ MdAssign(flushAll(MdState))
    /\ mdpc' = "done"
    /\ UNCHANGED <<textVars, lines, pos, genVars, otherVars>>

MdNext == MdProcessLine \/ MdReturn

SpecMd == MdInit /\ [][MdNext]_vars

----------------------------------------------------------------------------
(* generateHTML, one block at a time *)

StringRun(t) == [kind |-> "string", text |-> t]

\* A styled span: an object without a type field ("none").
StyledRun(t, b, i, u, k) ==
    [kind |-> "object", type |-> "none", text |-> t, url |-> Undefined,
     alt |-> Undefined, bold |-> b, italic |-> i, underline |-> u, strike |-> k,
     declared |-> (IF b THEN <<"bold">> ELSE <<>>) \o (IF i THEN <<"italic">> ELSE <<>>)
                    \o (IF u THEN <<"underline">> ELSE <<>>)
                    \o (IF k THEN <<"strike">> ELSE <<>>)]

\* A styled span that declares the flags of order, in that order.
DeclaredRun(t, order) ==
    LET set(flag) == \E n \in 1..Len(order) : order[n] = flag
    IN  [kind |-> "object", type |-> "none", text |-> t, url |-> Undefined,
         alt |-> Undefined, bold |-> set("bold"), italic |-> set("italic"),
         underline |-> set("underline"), strike |-> set("strike"), declared |-> order]

LinkRun(t, u) ==
    [kind |-> "object", type |-> "link", text |-> t, url |-> u, alt |-> Undefined,
     bold |-> FALSE, italic |-> FALSE, underline |-> FALSE, strike |-> FALSE,
     declared |-> <<>>]

ImageRun(a, u) ==
    [kind |-> "object", type |-> "image", text |-> Undefined, url |-> u, alt |-> a,
     bold |-> FALSE, italic |-> FALSE, underline |-> FALSE, strike |-> FALSE,
     declared |-> <<>>]

MetaFull ==
    [type |-> TMeta, absent |-> {},
     props |-> [title |-> <<"A", "&">>, author |-> <<"<">>, date |-> <<"'">>]]

MetaNoTitle ==
    [type |-> TMeta, absent |-> {},
     props |-> [title |-> <<>>, author |-> <<"Z">>, date |-> Undefined]]

DocProse ==
    [type |-> TDoc, absent |-> {}, content |-> <<"#", " ", "T", "\n", "\n", "x", "<">>]

SlideBullets ==
    [type |-> TSlide, absent |-> {"content"}, title |-> Undefined, layout |-> Undefined,
     content |-> <<>>, bullets |-> << <<"b", "\"">> >>]

SlideContent ==
    [type |-> TSlide, absent |-> {}, title |-> <<"S">>, layout |-> <<"T", "w", "o">>,
     content |-> << [type |-> "paragraph",
                     content |-> << StringRun(<<"p", ">">>),
                                    StyledRun(<<"s">>, TRUE, TRUE, FALSE, FALSE),
                                    LinkRun(<<"l">>, <<"u", "&">>) >>] >>,
     bullets |-> << <<"i">> >>]

SheetSparse ==
    [type |-> TSheet, absent |-> {}, name |-> <<"N">>, cols |-> << <<"A">>, <<"B">> >>,
     data |-> { << <<"1", ",", "1">>, <<"x">> >>, << <<"2", ",", "2">>, <<"<">> >> }]

SheetEmpty ==
    [type |-> TSheet, absent |-> {}, name |-> Undefined, cols |-> << <<"A">>, <<"B">>, <<"C">> >>,
     data |-> {}]

TableAligned ==
    [type |-> TTable, absent |-> {}, caption |-> <<"c", "&">>, style |-> Undefined,
     headers |-> << <<"H">>, <<"K">> >>,
     alignment |-> << <<"c", "e", "n", "t", "e", "r">> >>,
     rows |-> << << <<"1">>, <<">">> >> >>]

\* A table whose alignment entry is not one of left, center, right.
TableOddAlign ==
    [type |-> TTable, absent |-> {}, caption |-> Undefined, style |-> <<"s">>,
     headers |-> << <<"H">> >>,
     alignment |-> << <<"\"", ">">> >>,
     rows |-> <<>>]

ChartBar ==
    [type |-> TChart, absent |-> {}, title |-> <<"C", "<">>, chartType |-> <<"b", "a", "r">>,
     data |-> <<"series", "series">>]

DiagramFlow ==
    [type |-> TDiagram, absent |-> {}, title |-> Undefined, code |-> <<"a", ">", "b">>]

CodeJs ==
    [type |-> TOsfcode, absent |-> {}, language |-> <<"j", "s">>, caption |-> <<"k">>,
     code |-> <<"x", "&", "y">>]

FutureBlock == [type |-> <<"f", "u", "t", "u", "r", "e", "t", "y", "p", "e">>]
OddTagBlock == [type |-> <<"x", "<">>]
NoTagBlock  == [type |-> Undefined]

\* Blocks with every optional field absent.
MetaBare ==
    [type |-> TMeta, absent |-> {"props"},
     props |-> [title |-> Undefined, author |-> Undefined, date |-> Undefined]]

DocEmpty == [type |-> TDoc, absent |-> {}, content |-> Undefined]

SlideBare ==
    [type |-> TSlide, absent |-> {"content", "bullets"}, title |-> Undefined,
     layout |-> Undefined, content |-> <<>>, bullets |-> <<>>]

\* A slide whose content holds a link without text and url, a list, and a
\* content block of a variant the renderer does not know.
SlideLinks ==
    [type |-> TSlide, absent |-> {"bullets"}, title |-> <<>>, layout |-> <<>>,
     content |-> << [type |-> "paragraph",
                     content |-> << LinkRun(Undefined, Undefined) >>],
                    [type |-> "unordered_list",
                     items |-> << [content |-> << StringRun(<<"i", "'">>) >>] >>],
                    [type |-> "future_variant"] >>,
     bullets |-> <<>>]

SheetBare ==
    [type |-> TSheet, absent |-> {"cols", "data"}, name |-> Undefined,
     cols |-> <<>>, data |-> {}]

\* A table without caption, style and alignment, with a row of no cells and a
\* row shorter than the headers.
TableBare ==
    [type |-> TTable, absent |-> {"alignment"}, caption |-> Undefined,
     style |-> Undefined, headers |-> << <<"H">>, <<"K">> >>, alignment |-> <<>>,
     rows |-> << <<>>, << <<"1">> >> >>]

CodeNoCaption ==
    [type |-> TOsfcode, absent |-> {}, language |-> <<"p", "y">>, caption |-> Undefined,
     code |-> <<>>]

BlockPool ==
    {MetaFull, MetaNoTitle, DocProse, SlideBullets, SlideContent, SheetSparse,
     SheetEmpty, TableAligned, TableOddAlign, ChartBar, DiagramFlow, CodeJs,
     FutureBlock, OddTagBlock, NoTagBlock}

BarePool ==
    {MetaBare, DocEmpty, SlideBare, SlideLinks, SheetBare, TableBare, CodeNoCaption}

\* Documents of the one pool or the other, and of one block of each.
Documents ==
    SeqsUpTo(BlockPool, MaxBlocks) \cup SeqsUpTo(BarePool, MaxBlocks)
      \cup {<<a, b>> : a \in BlockPool, b \in BarePool}
      \cup {<<b, a>> : a \in BlockPool, b \in BarePool}

\* After lines 112-114: the meta block is found, content is empty.
GenInit ==
    /\ document \in Documents
    /\ theme \in {"default", "neon"}
    /\ nonce \in {<<"n", "1">>, <<"n", "2">>}
    /\ cspSource = <<"v", "s">>
    /\ metaBlock = FindMeta(document)
    /\ blk = 0
    /\ content = <<>>
    /\ page = <<>>
    /\ gpc = "loop"
    /\ IdleText
    /\ IdleMd
    /\ IdleOther

GenBlockPrepend ==
    /\ gpc = "loop"
    /\ blk < Len(document)
    /\ IF BlockThrows(document[blk + 1])
       THEN gpc' = "thrown" /\ UNCHANGED <<content, blk>>
       ELSE /\ content' = BlockFragment(document[blk + 1]) \o content
            /\ blk' = blk + 1
            /\ gpc' = gpc
    /\ UNCHANGED <<textVars, mdVars, otherVars, document, theme, nonce, cspSource, metaBlock,
                   page>>

\* The body of the for loop, for the next block: the fragment is appended,
\* or the exception a renderer raises leaves generateHTML.
GenBlock ==
    /\ gpc = "loop"
    /\ blk < Len(document)
    /\ IF BlockThrows(document[blk + 1])
       THEN gpc' = "thrown" /\ UNCHANGED <<content, blk>>
       ELSE /\ content' = content \o BlockFragment(document[blk + 1])
            /\ blk' = blk + 1
            /\ gpc' = gpc
    /\ UNCHANGED <<textVars, mdVars, otherVars, document, theme, nonce, cspSource, metaBlock,
                   page>>

\* Lines 150-184: the page is assembled and returned.
GenReturn ==
    /\ gpc = "loop"
    /\ blk = Len(document)
    /\ page' = PageOf(document, metaBlock, content, theme, nonce, cspSource)
    /\ gpc' = "done"
    /\ UNCHANGED <<textVars, mdVars, otherVars, document, theme, nonce, cspSource, metaBlock,
                   blk, content>>

GenNext == GenBlock \/ GenReturn

SpecGen == GenInit /\ [][GenNext]_vars

----------------------------------------------------------------------------
(* Properties of escapeHtml and renderInlineMarkdown *)

EntityOf(c) ==
    CASE c = "&"  -> AMP
      [] c = "<"  -> LT
      [] c = ">"  -> GT
      [] c = "\"" -> QUOT
      [] c = "'"  -> APOS
      [] OTHER    -> <<c>>

\* Every character replaced by its entity, all at once.
EscapeCharwise(t) == Concat([k \in 1..Len(t) |-> EntityOf(t[k])])

StartsEntity(s, k) == \E e \in {AMP, LT, GT, QUOT, APOS} : MatchAt(s, k, e)

\* No raw < > " ' and every & starts an entity.
FullyEscaped(s) ==
    \A k \in 1..Len(s) :
        /\ s[k] \notin {"<", ">", "\"", "'"}
        /\ s[k] = "&" => StartsEntity(s, k)

\* C2: escapeHtml returns its input with each of & < > " ' replaced by its
\* entity, the entities' own ampersands not escaped again; the result holds
\* no raw < > " ' and every & in it starts one of the five entities.
C2_EscapeHtmlReplacesFive ==
    op = "escapeHtml" =>
        /\ result = EscapeCharwise(text)
        /\ FullyEscaped(result)

C2_Witness ==
    /\ op = "escapeHtml"
    /\ text = <<"<", "&", "'">>
    /\ result = <<"&", "l", "t", ";", "&", "a", "m", "p", ";", "&", "#", "3", "9", ";">>

InlineTags == {"<strong>", "</strong>", "<em>", "</em>", "<code>", "</code>"}

\* C3: the only angle brackets in the output of renderInlineMarkdown are
\* those of the <strong>, <em> and <code> tags it wrote itself (each opened
\* tag closed); every character of text in it is escaped.
C3_InlineMarkdownNoRawAngle ==
    op = "renderInlineMarkdown" =>
        /\ \A k \in 1..Len(result) :
              result[k] \in InlineTags \/ result[k] \notin {"<", ">", "\"", "'"}
        /\ FullyEscaped(SelectSeq(result, LAMBDA u : u \notin InlineTags))
        /\ Count(result, "<strong>") = Count(result, "</strong>")
        /\ Count(result, "<em>") = Count(result, "</em>")
        /\ Count(result, "<code>") = Count(result, "</code>")

C3_Witness ==
    /\ op = "renderInlineMarkdown"
    /\ text = <<"*", "*", "<", "*", "*", ">">>
    /\ result = <<"<strong>", "&", "l", "t", ";", "</strong>", "&", "g", "t", ";">>

----------------------------------------------------------------------------
(* Properties of convertMarkdownToHTML *)

\* The kind of a trimmed line, read off its characters.
HasTextAfterSpaces(line, i) ==
    /\ i <= Len(line)
    /\ IsWs(line[i])
    /\ \E k \in (i + 1)..Len(line) : ~IsWs(line[k])

HashCount(line) ==
    IF line = <<>> \/ line[1] # "#" THEN 0
    ELSE IF \A k \in 1..Len(line) : line[k] = "#" THEN Len(line)
    ELSE Min({k \in 1..Len(line) : line[k] # "#"}) - 1

KindOf(rawLine) ==
    LET line == Trim(rawLine)
    IN  IF line = <<>> THEN "blank"
        ELSE IF HashCount(line) \in 1..3 /\ HasTextAfterSpaces(line, HashCount(line) + 1)
             THEN "heading"
        ELSE IF line[1] \in {"-", "*"} /\ HasTextAfterSpaces(line, 2) THEN "bullet"
        ELSE IF line[1] = ">" /\ Len(line) >= 2
                /\ (IsWs(line[2]) => Len(line) >= 3) THEN "quote"
        ELSE "plain"

\* The text a line gives to its element.
StripSpaces(s) == IF s # <<>> /\ IsWs(s[1]) THEN TrimStart(s) ELSE s

ItemOf(rawLine) ==
    LET line == Trim(rawLine)
        kind == KindOf(rawLine)
    IN  IF kind = "heading"
        THEN StripSpaces(SubSeq(line, HashCount(line) + 1, Len(line)))
        ELSE IF kind = "bullet" THEN StripSpaces(SubSeq(line, 2, Len(line)))
        ELSE IF kind = "quote"
        THEN SubSeq(line, IF IsWs(line[2]) THEN 3 ELSE 2, Len(line))
        ELSE line

\* The last line of the maximal run of lines of one kind that starts at i.
RECURSIVE RunEnd(_, _)
RunEnd(ls, i) ==
    IF i < Len(ls) /\ KindOf(ls[i + 1]) = KindOf(ls[i]) THEN RunEnd(ls, i + 1) ELSE i

\* The first line of the maximal run of lines of one kind that ends at i.
RECURSIVE RunStart(_, _)
RunStart(ls, i) ==
    IF i > 1 /\ KindOf(ls[i - 1]) = KindOf(ls[i]) THEN RunStart(ls, i - 1) ELSE i

Items(ls, i, j) == [k \in 1..(j - i + 1) |-> ItemOf(ls[i + k - 1])]

Wrapped(open, items, close) ==
    Concat([k \in 1..Len(items) |->
        <<open>> \o renderInlineMarkdown(items[k]) \o <<close>>])

\* The element of the run of lines i..j.
ElementOf(ls, i, j) ==
    LET kind == KindOf(ls[i])
    IN  CASE kind = "bullet" ->
               <<"<ul>">> \o Wrapped("<li>", Items(ls, i, j), "</li>") \o <<"</ul>">>
          [] kind = "quote" ->
               <<"<blockquote>">> \o Wrapped("<p>", Items(ls, i, j), "</p>")
                                  \o <<"</blockquote>">>
          [] kind = "plain" ->
               <<"<p>">> \o renderInlineMarkdown(JoinWith(Items(ls, i, j), <<" ">>))
                         \o <<"</p>">>
          [] OTHER -> <<>>

\* The elements of the lines from i on, in the order of their first line.
RECURSIVE ExpectedFrom(_, _)
ExpectedFrom(ls, i) ==
    IF i > Len(ls) THEN <<>>
    ELSE LET kind == KindOf(ls[i])
         IN  IF kind = "blank" THEN ExpectedFrom(ls, i + 1)
             ELSE IF kind = "heading"
             THEN LET n == HashCount(Trim(ls[i]))
                  IN  <<HOpen(n)>> \o renderInlineMarkdown(ItemOf(ls[i]))
                        \o <<HClose(n)>> \o ExpectedFrom(ls, i + 1)
             ELSE ElementOf(ls, i, RunEnd(ls, i)) \o ExpectedFrom(ls, RunEnd(ls, i) + 1)

OpenAccumulators ==
    {a \in {"paragraph", "list", "blockquote"} :
        \/ a = "paragraph" /\ paragraph # <<>>
        \/ a = "list" /\ listItems # <<>>
        \/ a = "blockquote" /\ blockquoteLines # <<>>}

\* C4: at most one of the paragraph, list and blockquote accumulators is
\* non-empty after any line, and all three are empty after a blank line or
\* a heading line.
C4_AccumulatorsExclusive ==
    /\ Cardinality(OpenAccumulators) <= 1
    /\ (pos >= 1 /\ KindOf(lines[pos]) \in {"blank", "heading"})
          => OpenAccumulators = {}

C4_Witness ==
    /\ mdpc = "loop"
    /\ pos = 3
    /\ KindOf(lines[1]) = "plain"
    /\ KindOf(lines[2]) = "quote"
    /\ KindOf(lines[3]) = "bullet"
    /\ OpenAccumulators = {"list"}

BulletLinesIn(ls) == {k \in 1..Len(ls) : KindOf(ls[k]) = "bullet"}
BulletRunsIn(ls) == {k \in BulletLinesIn(ls) : RunStart(ls, k) = k}

\* C5: consecutive bullet lines accumulate in one list: after a bullet line
\* the list accumulator holds the items of the whole run so far, in input
\* order, the paragraph and the blockquote are flushed and no <ul> has been
\* written for the run; the output has one <ul> per run of bullet lines and
\* one <li> per bullet line.
C5_BulletsShareOneList ==
    /\ (mdpc = "loop" /\ pos >= 1 /\ KindOf(lines[pos]) = "bullet") =>
          /\ listItems = Items(lines, RunStart(lines, pos), pos)
          /\ paragraph = <<>>
          /\ blockquoteLines = <<>>
          /\ Count(html, "<ul>") =
                Cardinality(BulletRunsIn(SubSeq(lines, 1, RunStart(lines, pos) - 1)))
    /\ mdpc = "done" =>
          /\ Count(html, "<ul>") = Cardinality(BulletRunsIn(lines))
          /\ Count(html, "</ul>") = Cardinality(BulletRunsIn(lines))
          /\ Count(html, "<li>") = Cardinality(BulletLinesIn(lines))
          /\ (\A k \in 1..Len(lines) : KindOf(lines[k]) = "bullet") =>
                html = ElementOf(lines, 1, Len(lines))

C5_Witness ==
    /\ mdpc = "done"
    /\ lines = << <<"-", " ", "a">>, <<"*", " ", "b">>, <<"-", " ", "a">> >>
    /\ html = <<"<ul>", "<li>", "a", "</li>", "<li>", "b", "</li>",
                "<li>", "a", "</li>", "</ul>">>

EndsWith(s, t) ==
    Len(s) >= Len(t) /\ SubSeq(s, Len(s) - Len(t) + 1, Len(s)) = t

\* C6: after a heading line (1 to 3 "#", white space, text) the three
\* accumulators are empty and the output ends with the heading element of
\* the level given by the number of "#"; "# T", blank, "x" renders
\* <h1>T</h1><p>x</p>.
C6_HeadingLevelAndFlush ==
    /\ (pos >= 1 /\ KindOf(lines[pos]) = "heading") =>
          LET n == HashCount(Trim(lines[pos]))
          IN  /\ OpenAccumulators = {}
              /\ EndsWith(html, <<HOpen(n)>> \o renderInlineMarkdown(ItemOf(lines[pos]))
                                  \o <<HClose(n)>>)
              /\ HOpen(n) = CASE n = 1 -> "<h1>" [] n = 2 -> "<h2>" [] n = 3 -> "<h3>"
    /\ (mdpc = "done" /\ lines = << <<"#", " ", "T">>, <<>>, <<"x">> >>) =>
          html = <<"<h1>", "T", "</h1>", "<p>", "x", "</p>">>

C6_Witness ==
    /\ mdpc = "done"
    /\ text = <<"#", " ", "T", "\n", "\n", "x">>
    /\ html = <<"<h1>", "T", "</h1>", "<p>", "x", "</p>">>

\* C7: the conversion is one pass that loses and reorders nothing: after
\* each line the output, followed by what the open accumulator would flush,
\* is the sequence of the elements of the lines read so far, in the order of
\* their first lines; on return every accumulator has been flushed.
C7_SinglePassInOrder ==
    /\ flushAll(MdState).html = ExpectedFrom(SubSeq(lines, 1, pos), 1)
    /\ mdpc = "done" =>
          /\ pos = Len(lines)
          /\ OpenAccumulators = {}
          /\ html = ExpectedFrom(lines, 1)

C7_Witness ==
    /\ mdpc = "done"
    /\ lines = << <<"x">>, <<" ", "y">>, <<">", " ", "q">> >>
    /\ html = <<"<p>", "x", " ", "y", "</p>",
                "<blockquote>", "<p>", "q", "</p>", "</blockquote>">>

----------------------------------------------------------------------------
(* Properties of generateHTML *)

IsChar(u) == Len(u) = 1

\* The text of a piece of HTML: its characters, the markup left out.
TextUnits(s) == SelectSeq(s, IsChar)

\* Every entity replaced by its character, once.  An entity holds no & after
\* its first character, so two entities never overlap.
EntityStartingAt(s, k) == CHOOSE e \in {AMP, LT, GT, QUOT, APOS} : MatchAt(s, k, e)

InsideEntity(s, k) ==
    \E j \in 1..(k - 1) :
        StartsEntity(s, j) /\ k < j + Len(EntityStartingAt(s, j))

DecodedAt(s, k) ==
    IF StartsEntity(s, k)
    THEN <<CHOOSE c \in {"&", "<", ">", "\"", "'"} : EntityOf(c) = EntityStartingAt(s, k)>>
    ELSE IF InsideEntity(s, k) THEN <<>>
    ELSE <<s[k]>>

Decode(s) == Concat([k \in 1..Len(s) |-> DecodedAt(s, k)])

HasEntity(s) == \E k \in 1..Len(s) : StartsEntity(s, k)

\* The units between the first open and the first close after it.
Between(s, open, close) ==
    LET a == Min({k \in 1..Len(s) : s[k] = open})
        b == Min({k \in (a + 1)..Len(s) : s[k] = close})
    IN  SubSeq(s, a + 1, b - 1)

KnownTags == {TMeta, TDoc, TSlide, TSheet, TTable, TChart, TDiagram, TOsfcode}

\* The unit that starts the fragment of a block of each type.
FragmentStartOf(block) ==
    CASE block.type = TDoc     -> "<div class=\"block block-doc\">"
      [] block.type = TSlide   -> "<div class=\"block block-slide layout-"
      [] block.type = TSheet   -> "<div class=\"block block-sheet\">"
      [] block.type = TTable   -> "<div class=\"block block-table\">"
      [] block.type = TChart   -> "<div class=\"block block-chart\">"
      [] block.type = TDiagram -> "<div class=\"block block-diagram\">"
      [] block.type = TOsfcode -> "<div class=\"block block-code\">"
      [] OTHER                 -> "<div class=\"block block-"

FragmentStarts(s) ==
    SelectSeq(s, LAMBDA u :
        \E b \in BlockPool \cup BarePool : b.type # TMeta /\ u = FragmentStartOf(b))

NonMeta(blocks) == SelectSeq(blocks, LAMBDA b : b.type # TMeta)

\* C1: every piece of user-supplied text in the page went through
\* escapeHtml exactly once: the text of the page holds no raw < > " ' and
\* no & outside an entity (never zero times), and decoding it once leaves
\* no entity behind (never twice; no text of the documents holds an entity).
C1_UserTextEscapedExactlyOnce ==
    gpc = "done" =>
        /\ FullyEscaped(TextUnits(page))
        /\ ~HasEntity(Decode(TextUnits(page)))

\* C8: the fragments are concatenated in document order: after each block
\* the content is the fragments of the non-meta blocks read so far, one
\* fragment per block in the order of the blocks; the page carries the
\* content unchanged in its content region.
C8_FragmentsInDocumentOrder ==
    LET read == NonMeta(SubSeq(document, 1, blk))
    IN  /\ FragmentStarts(content) = [k \in 1..Len(read) |-> FragmentStartOf(read[k])]
        /\ content = Concat([k \in 1..Len(read) |-> BlockFragment(read[k])])
        /\ gpc = "done" =>
              /\ blk = Len(document)
              /\ Between(page, "</div><div class=\"content\">",
                               "</div><div class=\"footer\">") = content

C8_Witness ==
    /\ gpc = "done"
    /\ document = <<ChartBar, DocProse>>
    /\ FragmentStarts(content) =
          <<"<div class=\"block block-chart\">", "<div class=\"block block-doc\">">>
    /\ content = generateChartHTML(ChartBar) \o generateDocHTML(DocProse)

\* C9: a meta block adds nothing to the content, wherever it stands and
\* however many there are; the title, author and date of the header are
\* those of the first meta block; without a meta block or a title the header
\* shows "Untitled Document" and the page title is "OSF Preview"; the author
\* and date lines are left out when absent.
C9_MetaOnlySuppliesHeader ==
    gpc = "done" =>
        LET metas == {k \in 1..Len(document) : document[k].type = TMeta}
            first == IF metas = {} THEN 0 ELSE Min(metas)
            prop(key) ==
                IF first = 0 \/ document[first].props[key] = Undefined THEN <<>>
                ELSE document[first].props[key]
        IN  /\ Len(FragmentStarts(content)) = Len(document) - Cardinality(metas)
            /\ content = ContentOf(NonMeta(document))
            /\ Between(page, "<title>", "</title>") =
                  (IF prop("title") = <<>> THEN OsfPreviewText
                   ELSE EscapeCharwise(prop("title")))
            /\ Between(page, "<h1>", "</h1>") =
                  (IF prop("title") = <<>> THEN UntitledDocumentText
                   ELSE EscapeCharwise(prop("title")))
            /\ IF prop("author") = <<>> THEN Count(page, "<p class=\"author\">By ") = 0
               ELSE Between(page, "<p class=\"author\">By ", "</p>")
                       = EscapeCharwise(prop("author"))
            /\ IF prop("date") = <<>> THEN Count(page, "<p class=\"date\">") = 0
               ELSE Between(page, "<p class=\"date\">", "</p>")
                       = EscapeCharwise(prop("date"))

C9_Witness ==
    /\ gpc = "done"
    /\ document = <<MetaNoTitle, MetaFull>>
    /\ content = <<>>
    /\ Between(page, "<h1>", "</h1>") = UntitledDocumentText
    /\ Between(page, "<p class=\"author\">By ", "</p>") = <<"Z">>

\* C10: a block of an unknown type (or without a type tag, named "unknown")
\* renders as the placeholder holding its escaped type name, the loop goes
\* on after it, and every block of the document has been rendered when the
\* page is returned.
C10_UnknownBlockPlaceholder ==
    /\ (blk >= 1 /\ document[blk].type \notin KnownTags) =>
          LET name == IF document[blk].type = Undefined THEN UnknownText
                      ELSE document[blk].type
          IN  EndsWith(content,
                  <<"<div class=\"block block-">> \o EscapeCharwise(name)
                    \o <<"\">Block type: ">> \o EscapeCharwise(name) \o <<"</div>">>)
    /\ Len(FragmentStarts(content)) = Len(NonMeta(SubSeq(document, 1, blk)))
    /\ gpc = "done" => blk = Len(document)

C10_Witness ==
    /\ gpc = "done"
    /\ document = <<FutureBlock, CodeJs>>
    /\ content =
          <<"<div class=\"block block-", "f", "u", "t", "u", "r", "e", "t", "y", "p", "e",
            "\">Block type: ", "f", "u", "t", "u", "r", "e", "t", "y", "p", "e", "</div>">>
            \o generateCodeHTML(CodeJs)

----------------------------------------------------------------------------
(* The renderers of one block, applied to bounded inputs *)

\* The entries a sheet's data is drawn from: keys "r,c", and keys that are not
\* a coordinate pair.
SheetEntries ==
    { << <<"1", ",", "1">>, <<"x">> >>,
      << <<"1", ",", "2">>, <<"y">> >>,
      << <<"2", ",", "1">>, <<"&">> >>,
      << <<"2", ",", "2">>, <<"<">> >>,
      << <<"3", ",", "1">>, <<"z">> >>,
      << <<"a", "b", "c">>, <<"m">> >>,
      << <<"5">>, <<"m">> >>,
      << <<"3", ",", "x">>, <<"m">> >>,
      << <<"1", ",", " ", "2">>, <<"m">> >>,
      << <<"0", ",", "0">>, <<"m">> >> }

SheetDatas == {d \in SUBSET SheetEntries : Cardinality(d) <= MaxKeys}

SheetCols == {<<>>, << <<"A">> >>, << <<"A">>, <<"B">> >>, << <<"A">>, <<"B">>, <<"C">> >>}

SheetArgs ==
    { sh \in [type : {TSheet}, absent : SUBSET {"cols", "data"},
              name : {Undefined, <<"N">>}, cols : SheetCols, data : SheetDatas] :
        /\ "cols" \in sh.absent => sh.cols = <<>>
        /\ "data" \in sh.absent => sh.data = {} }

StyleFlags == {"bold", "italic", "underline", "strike"}

\* The orders in which a span can declare each set of flags.
FlagOrders ==
    UNION { {o \in [1..Cardinality(F) -> F] :
                \A m, n \in 1..Cardinality(F) : m # n => o[m] # o[n]} :
            F \in SUBSET StyleFlags }

OtherRuns ==
    {StringRun(<<"p", ">">>), LinkRun(<<"l">>, <<"u", "&">>), LinkRun(Undefined, Undefined),
     ImageRun(<<"a", "\"">>, <<"i">>), ImageRun(Undefined, Undefined),
     DeclaredRun(Undefined, <<"bold">>)}

RunsArgs ==
    {<<DeclaredRun(<<"t", "<">>, o)>> : o \in FlagOrders}
      \cup {<<a>> : a \in OtherRuns}
      \cup {<<a, DeclaredRun(<<"t">>, o)>> : a \in OtherRuns,
                o \in {<<"italic", "bold">>, <<"strike", "underline">>}}

\* Content blocks.  A code block carries an optional language that the
\* renderer does not read.
Paragraph(runs) == [type |-> "paragraph", content |-> runs]

ContentPool ==
    { Paragraph(<<StringRun(<<"#", " ", "T">>)>>),
      Paragraph(<<StringRun(<<"#", "#", " ">>), DeclaredRun(<<"U">>, <<"bold">>)>>),
      Paragraph(<<LinkRun(<<"#", "#", "#", " ", "L">>, <<"u">>)>>),
      Paragraph(<<ImageRun(<<"#", " ", "A">>, <<"i">>)>>),
      Paragraph(<<StringRun(<<"#", "#", "#", "#", " ", "x">>)>>),
      Paragraph(<<StringRun(<<"#", "x">>)>>),
      Paragraph(<<StringRun(<<" ", "#", " ", "*", "b", "*", " ">>)>>),
      Paragraph(<<StringRun(<<"#", " ">>)>>),
      Paragraph(<<StringRun(<<"#", " ", "a", "\n", "b">>)>>),
      Paragraph(<<StringRun(<<"p", "<">>), DeclaredRun(<<"s">>, <<"italic">>)>>),
      Paragraph(<<>>),
      [type |-> "unordered_list",
       items |-> << [content |-> <<StringRun(<<"i">>)>>], [content |-> <<>>] >>],
      [type |-> "ordered_list", items |-> << [content |-> <<StringRun(<<"#", " ", "o">>)>>] >>],
      [type |-> "blockquote", content |-> << Paragraph(<<StringRun(<<"#", " ", "q">>)>>) >>],
      [type |-> "code", language |-> Undefined, content |-> <<"c", "&">>],
      [type |-> "image", url |-> <<"u">>, alt |-> <<"a", "'">>],
      [type |-> "future_variant"] }

ContentArgs ==
    {<<>>} \cup {<<a>> : a \in ContentPool}
      \cup {<<a, b>> : a \in ContentPool,
                b \in {Paragraph(<<StringRun(<<"#", " ", "T">>)>>),
                       [type |-> "future_variant"]}}
      \cup {<<[type |-> "future_variant"], b>> : b \in ContentPool}

SlideArgs ==
    { sl \in [type : {TSlide}, absent : SUBSET {"content", "bullets"},
              title : {Undefined, <<>>, <<"S", "&">>},
              layout : {Undefined, <<>>, <<"T", "w", "o">>},
              content : {<<>>, <<Paragraph(<<StringRun(<<"c">>)>>)>>,
                         <<[type |-> "code", language |-> Undefined, content |-> <<"k">>],
                           Paragraph(<<StringRun(<<"#", " ", "h">>)>>)>>},
              bullets : {<<>>, << <<"b">> >>, << <<"b">>, <<"<">> >>}] :
        /\ "content" \in sl.absent => sl.content = <<>>
        /\ "bullets" \in sl.absent => sl.bullets = <<>> }

RenderInit ==
    /\ \/ arg \in [kind : {"sheet"}, val : SheetArgs]
       \/ arg \in [kind : {"runs"}, val : RunsArgs]
       \/ arg \in [kind : {"content"}, val : ContentArgs]
       \/ arg \in [kind : {"slide"}, val : SlideArgs]
    /\ text = <<>>
    /\ result = <<>>
    /\ op = "none"
    /\ IdleMd
    /\ IdleGen
    /\ IdlePreview
    /\ IdleCalls
    /\ IdleExt

CallGenerateSheetHTML ==
    /\ op = "none"
    /\ arg.kind = "sheet"
    /\ result' = generateSheetHTML(arg.val)
    /\ op' = "generateSheetHTML"
    /\ UNCHANGED <<text, mdVars, genVars, otherVars>>

CallRenderRuns ==
    /\ op = "none"
    /\ arg.kind = "runs"
    /\ result' = renderRuns(arg.val)
    /\ op' = "renderRuns"
    /\ UNCHANGED <<text, mdVars, genVars, otherVars>>

CallRunsToText ==
    /\ op = "none"
    /\ arg.kind = "runs"
    /\ result' = runsToText(arg.val)
    /\ op' = "runsToText"
    /\ UNCHANGED <<text, mdVars, genVars, otherVars>>

CallRenderSlideContentHTML ==
    /\ op = "none"
    /\ arg.kind = "content"
    /\ result' = renderSlideContentHTML(arg.val)
    /\ op' = "renderSlideContentHTML"
    /\ UNCHANGED <<text, mdVars, genVars, otherVars>>

CallGenerateSlideHTML ==
    /\ op = "none"
    /\ arg.kind = "slide"
    /\ result' = generateSlideHTML(arg.val)
    /\ op' = "generateSlideHTML"
    /\ UNCHANGED <<text, mdVars, genVars, otherVars>>

RenderNext ==
    \/ CallGenerateSheetHTML
    \/ CallRenderRuns
    \/ CallRunsToText
    \/ CallRenderSlideContentHTML
    \/ CallGenerateSlideHTML

SpecRender == RenderInit /\ [][RenderNext]_vars

----------------------------------------------------------------------------
(* Properties of generateSheetHTML *)

\* A key "r,c" with r, c in 1..9, read character by character.
IsCoordKey(k) ==
    \E r \in 1..9, c \in 1..9 : k = NumToText(r) \o <<",">> \o NumToText(c)
RowOfKey(k) ==
    CHOOSE r \in 1..9 : \E c \in 1..9 : k = NumToText(r) \o <<",">> \o NumToText(c)
ColOfKey(k) ==
    CHOOSE c \in 1..9 : \E r \in 1..9 : k = NumToText(r) \o <<",">> \o NumToText(c)

SheetBody(h) == Between(h, "<tbody>", "</tbody></table>")

\* The dense grid of the entries d that are coordinate pairs.
DenseGrid(d, maxRow, maxCol) ==
    Concat([r \in 1..maxRow |->
        <<"<tr>">>
          \o Concat([c \in 1..maxCol |->
                <<"<td>">>
                  \o (IF \E kv \in d : IsCoordKey(kv[1]) /\ RowOfKey(kv[1]) = r
                                         /\ ColOfKey(kv[1]) = c
                      THEN EscapeCharwise(
                             (CHOOSE kv \in d : IsCoordKey(kv[1]) /\ RowOfKey(kv[1]) = r
                                                  /\ ColOfKey(kv[1]) = c)[2])
                      ELSE <<>>)
                  \o <<"</td>">>])
          \o <<"</tr>">>])

\* C11: with a non-empty data mapping of well-formed keys the body is the
\* dense grid of maxRow rows of maxCol cells, maxRow and maxCol being the
\* largest row and column among the keys whatever the declared columns are,
\* each cell holding the escaped value of its key or nothing; with an empty
\* or absent mapping the body is one placeholder row whose colspan is
\* max(number of declared columns, 1).
C11_SheetDenseGrid ==
    (op = "generateSheetHTML") =>
        LET d    == arg.val.data
            keys == {kv[1] : kv \in d}
            body == SheetBody(result)
        IN  /\ (keys # {} /\ \A k \in keys : IsCoordKey(k)) =>
                  LET maxRow == Max({RowOfKey(k) : k \in keys})
                      maxCol == Max({ColOfKey(k) : k \in keys})
                  IN  /\ Count(body, "<tr>") = maxRow
                      /\ Count(body, "<td>") = maxRow * maxCol
                      /\ body = DenseGrid(d, maxRow, maxCol)
            /\ keys = {} =>
                  body = <<"<tr><td class=\"sheet-empty\" colspan=\"">>
                           \o NumToText(Max({Len(arg.val.cols), 1}))
                           \o <<"\">No sheet data</td></tr>">>

\* cols [A,B] with data {"1,1": x, "2,2": <} gives a 2x2 body.
C11_Witness ==
    /\ op = "generateSheetHTML"
    /\ arg.val.cols = << <<"A">>, <<"B">> >>
    /\ {kv[1] : kv \in arg.val.data} = {<<"1", ",", "1">>, <<"2", ",", "2">>}
    /\ SheetBody(result) =
          <<"<tr>", "<td>", "x", "</td>", "<td>", "</td>", "</tr>",
            "<tr>", "<td>", "</td>", "<td>", "&", "l", "t", ";", "</td>", "</tr>">>

\* C12: a key that is not a well-formed coordinate pair is treated as absent:
\* the body is the body of the same sheet without that key.
C12_MalformedKeyAsAbsent ==
    (op = "generateSheetHTML") =>
        \A kv \in arg.val.data :
            ~IsCoordKey(kv[1]) =>
                SheetBody(result) =
                    SheetBody(generateSheetHTML(
                        [arg.val EXCEPT !.data = arg.val.data \ {kv}]))

----------------------------------------------------------------------------
(* generateHTML raises no exception *)

\* C13: for a document whose blocks carry their required fields, whatever
\* optional fields are absent and however empty or sparse the sheet and table
\* data are, no renderer raises: every block is rendered and generateHTML
\* returns the page, from the doctype to the closing html tag.
C13_NeverThrowsWellTyped ==
    /\ gpc # "thrown"
    /\ \A k \in 1..Len(document) : ~BlockThrows(document[k])
    /\ gpc = "done" =>
          /\ blk = Len(document)
          /\ Len(page) > 0
          /\ page[1] = "<!DOCTYPE html><html lang=\"en\"><head>"
          /\ page[Len(page)] = "</script></body></html>"

C13_Witness ==
    /\ gpc = "done"
    /\ document = <<SlideBare, TableBare>>
    /\ content = generateSlideHTML(SlideBare) \o generateTableHTML(TableBare)
    /\ Count(content, "<td style=\"text-align: ") = 1

----------------------------------------------------------------------------
(* Properties of renderRuns *)

IsStyledSpan(run) == run.kind = "object" /\ run.type \notin {"link", "image"}

\* The wrappers of a span, written flat: the opening tags from the outermost
\* (strike) to the innermost (strong), the escaped text, the closing tags.
StyledExpected(run) ==
    (IF run.strike THEN <<"<span class=\"strike\">">> ELSE <<>>)
      \o (IF run.underline THEN <<"<span class=\"underline\">">> ELSE <<>>)
      \o (IF run.italic THEN <<"<em>">> ELSE <<>>)
      \o (IF run.bold THEN <<"<strong>">> ELSE <<>>)
      \o (IF run.text = Undefined THEN <<>> ELSE EscapeCharwise(run.text))
      \o (IF run.bold THEN <<"</strong>">> ELSE <<>>)
      \o (IF run.italic THEN <<"</em>">> ELSE <<>>)
      \o (IF run.underline THEN <<"</span>">> ELSE <<>>)
      \o (IF run.strike THEN <<"</span>">> ELSE <<>>)

\* C14: a styled span renders as its escaped text inside exactly the
\* wrappers of its set flags, strong innermost, then em, then the underline
\* span, then the strike span, whatever the order in which the span declares
\* its flags.
C14_StyleNestingFixedOrder ==
    (op = "renderRuns") =>
        /\ result = Concat([k \in 1..Len(arg.val) |->
                        IF IsStyledSpan(arg.val[k]) THEN StyledExpected(arg.val[k])
                        ELSE renderRun(arg.val[k])])
        /\ (Len(arg.val) = 1 /\ IsStyledSpan(arg.val[1])) =>
              LET run == arg.val[1]
                  n(flag) == IF flag THEN 1 ELSE 0
              IN  /\ Count(result, "<strong>") = n(run.bold)
                  /\ Count(result, "<em>") = n(run.italic)
                  /\ Count(result, "<span class=\"underline\">") = n(run.underline)
                  /\ Count(result, "<span class=\"strike\">") = n(run.strike)
                  /\ Count(result, "</span>") = n(run.underline) + n(run.strike)

\* italic declared before bold: still <em><strong>text</strong></em>.
C14_Witness ==
    /\ op = "renderRuns"
    /\ Len(arg.val) = 1
    /\ arg.val[1].kind = "object"
    /\ arg.val[1].declared = <<"italic", "bold">>
    /\ result = <<"<em>", "<strong>", "t", "&", "l", "t", ";", "</strong>", "</em>">>

----------------------------------------------------------------------------
(* Properties of generateSlideHTML and renderSlideContentHTML *)

\* C15: a slide renders its content blocks and nothing of its bullets when
\* the content is non-empty, its bullet list alone when the content is absent
\* or empty and the bullets are not, and neither when both are empty; the
\* title defaults to 'Untitled Slide' and the layout class to TitleAndContent.
C15_SlideExclusivePaths ==
    (op = "generateSlideHTML") =>
        LET sl     == arg.val
            hasC   == "content" \notin sl.absent /\ sl.content # <<>>
            hasB   == "bullets" \notin sl.absent /\ sl.bullets # <<>>
            title  == IF sl.title \in {Undefined, <<>>} THEN UntitledSlideText ELSE sl.title
            layout == IF sl.layout \in {Undefined, <<>>} THEN TitleAndContentText
                      ELSE sl.layout
            head   == <<"<div class=\"block block-slide layout-">> \o EscapeCharwise(layout)
                        \o <<"\">", "<h2 class=\"slide-title\">">> \o EscapeCharwise(title)
                        \o <<"</h2>">>
            items  == Concat([k \in 1..Len(sl.bullets) |->
                         <<"<li>">> \o EscapeCharwise(sl.bullets[k]) \o <<"</li>">>])
        IN  /\ Count(result, "<div class=\"slide-content\">") = (IF hasC THEN 1 ELSE 0)
            /\ Count(result, "<ul class=\"slide-bullets\">")
                  = (IF ~hasC /\ hasB THEN 1 ELSE 0)
            /\ Count(result, "<li>") = (IF ~hasC /\ hasB THEN Len(sl.bullets) ELSE 0)
            /\ result =
                 head
                   \o (IF hasC
                       THEN <<"<div class=\"slide-content\">">>
                              \o renderSlideContentHTML(sl.content) \o <<"</div>">>
                       ELSE IF hasB
                       THEN <<"<ul class=\"slide-bullets\">">> \o items \o <<"</ul>">>
                       ELSE <<>>)
                   \o <<"</div>">>

\* Content and bullets both present: the bullets are not rendered.
C15_Witness ==
    /\ op = "generateSlideHTML"
    /\ arg.val.absent = {}
    /\ arg.val.title = Undefined
    /\ arg.val.layout = Undefined
    /\ arg.val.content = <<Paragraph(<<StringRun(<<"c">>)>>)>>
    /\ arg.val.bullets = << <<"b">>, <<"<">> >>
    /\ result = <<"<div class=\"block block-slide layout-">> \o TitleAndContentText
                  \o <<"\">", "<h2 class=\"slide-title\">">> \o UntitledSlideText
                  \o <<"</h2>", "<div class=\"slide-content\">", "<p>", "c", "</p>",
                       "</div>", "</div>">>

\* The plain text of a run sequence: plain runs as they are, spans as their
\* text, links as their link text, images as their alt text.
PlainOf(runs) ==
    Concat([k \in 1..Len(runs) |->
        LET run == runs[k]
            t   == IF run.kind = "object" /\ run.type = "image" THEN run.alt ELSE run.text
        IN  IF t = Undefined THEN <<>> ELSE t])

\* 1 to 3 '#', white space, then text up to the end, on one line.
IsHeadingText(t) ==
    /\ KindOf(t) = "heading"
    /\ \A k \in 1..Len(Trim(t)) : k > HashCount(Trim(t)) + 1 => Trim(t)[k] \notin {"\n", "\r"}

HeadingOpenTag(n)  == CASE n = 1 -> "<h1>"  [] n = 2 -> "<h2>"  [] n = 3 -> "<h3>"
HeadingCloseTag(n) == CASE n = 1 -> "</h1>" [] n = 2 -> "</h2>" [] n = 3 -> "</h3>"

ContentExpected(block) ==
    IF block.type = "paragraph"
    THEN LET t == Trim(PlainOf(block.content))
             n == HashCount(t)
         IN  IF IsHeadingText(t)
             THEN <<HeadingOpenTag(n)>>
                    \o renderInlineMarkdown(StripSpaces(SubSeq(t, n + 1, Len(t))))
                    \o <<HeadingCloseTag(n)>>
             ELSE <<"<p>">> \o renderRuns(block.content) \o <<"</p>">>
    ELSE IF block.type \in {"unordered_list", "ordered_list", "blockquote", "code", "image"}
    THEN renderContentBlock(block)
    ELSE <<>>

\* C16: a paragraph is a heading iff the trimmed plain text of its runs is 1
\* to 3 '#', white space and text; the heading has the level of the number of
\* '#' and shows the inline-markdown rendering of the remainder; any other
\* paragraph is <p> around renderRuns; a content block of an unknown variant
\* adds nothing.
C16_ParagraphHeadingSniff ==
    (op = "renderSlideContentHTML") =>
        /\ result = Concat([k \in 1..Len(arg.val) |-> ContentExpected(arg.val[k])])
        /\ \A k \in 1..Len(arg.val) :
              arg.val[k].type = "paragraph" =>
                 (IsHeadingText(PlainOf(arg.val[k].content))
                    <=> \E n \in 1..3 : Count(ContentExpected(arg.val[k]), HeadingOpenTag(n)) = 1)
        /\ (Len(arg.val) = 1 /\ arg.val[1].type = "paragraph") =>
              (IsHeadingText(PlainOf(arg.val[1].content)) <=> Count(result, "<p>") = 0)

\* The link text "### L" makes the paragraph a level 3 heading.
C16_Witness ==
    /\ op = "renderSlideContentHTML"
    /\ arg.val = <<Paragraph(<<LinkRun(<<"#", "#", "#", " ", "L">>, <<"u">>)>>),
                   [type |-> "future_variant"]>>
    /\ result = <<"<h3>", "L", "</h3>">>

----------------------------------------------------------------------------
(* previewCommand: the panel, its handlers and the page it shows *)

PreviewFailedText ==
    <<"P", "r", "e", "v", "i", "e", "w", " ", "f", "a", "i", "l", "e", "d">>

UnexpectedTokenText ==
    <<"U", "n", "e", "x", "p", "e", "c", "t", "e", "d", " ", "t", "o", "k", "e", "n",
      " ", "a", "t", " ", "l", "i", "n", "e", " ", "4">>

\* The message of the TypeError of a dereference of undefined.
TypeErrorText == <<"C", "a", "n", "n", "o", "t", " ", "r", "e", "a", "d">>

generateErrorHTMLRaw(errorMessage, nonceText, cspSourceText) ==
    <<"<!DOCTYPE html><html lang=\"en\"><head>">>
      \o <<"<meta http-equiv=\"Content-Security-Policy\" content=\"">>
      \o <<"default-src 'none'; style-src 'unsafe-inline'; script-src 'nonce-">>
      \o nonceText \o <<"';">> \o <<"\">">>
      \o <<"<title>Parse Error</title>">>
      \o <<"<style>", "<error css>", "</style>">>
      \o <<"</head><body><div class=\"error\">">>
      \o <<"<h1>Parse Error</h1>">>
      \o <<"<pre>">> \o errorMessage \o <<"</pre>">>
      \o <<"</div></body></html>">>

generateErrorHTML(errorMessage, nonceText, cspSourceText) ==
    <<"<!DOCTYPE html><html lang=\"en\"><head>">>
      \o <<"<meta http-equiv=\"Content-Security-Policy\" content=\"">>
      \o <<"default-src 'none'; style-src 'unsafe-inline'; script-src 'nonce-">>
      \o nonceText \o <<"';">> \o <<"\">">>
      \o <<"<title>Parse Error</title>">>
      \o <<"<style>", "<error css>", "</style>">>
      \o <<"</head><body><div class=\"error\">">>
      \o <<"<h1>Parse Error</h1>">>
      \o <<"<pre>">> \o escapeHtml(errorMessage) \o <<"</pre>">>
      \o <<"</div></body></html>">>

\* A chart the parser should not produce: its data is missing.
ChartNoData ==
    [type |-> TChart, absent |-> {"data"}, title |-> <<"C">>, chartType |-> <<"b">>,
     data |-> <<>>]

\* The texts the editor can hold, named by what the parser makes of them.
EditorTexts == {"deck", "sheet", "empty", "broken", "angle", "silent", "blank", "illtyped"}

\* parse(text, parseOptions) of omniscript-parser: the document tree, or the
\* error it throws, with or without a message.
ParseOf(t) ==
    CASE t = "deck"     -> [ok |-> TRUE, document |-> <<MetaFull, SlideBullets>>,
                            message |-> Undefined]
      [] t = "sheet"    -> [ok |-> TRUE, document |-> <<SheetSparse>>, message |-> Undefined]
      [] t = "empty"    -> [ok |-> TRUE, document |-> <<>>, message |-> Undefined]
      [] t = "illtyped" -> [ok |-> TRUE, document |-> <<DocProse, ChartNoData>>,
                            message |-> Undefined]
      [] t = "broken"   -> [ok |-> FALSE, document |-> <<>>, message |-> UnexpectedTokenText]
      [] t = "angle"    -> [ok |-> FALSE, document |-> <<>>, message |-> <<"<", "&", ">">>]
      [] t = "silent"   -> [ok |-> FALSE, document |-> <<>>, message |-> Undefined]
      [] t = "blank"    -> [ok |-> FALSE, document |-> <<>>, message |-> <<>>]

\* getNonce(): 32 random characters.
NoncePool == {<<"n", "1">>, <<"n", "2">>}

ThemePool == {"default", "neon"}

\* panel.webview.cspSource
WebviewCspSource == <<"v", "s">>

\* updatePreview for the text t, the configured theme and a fresh nonce: the
\* value assigned to panel.webview.html.  An exception of parse or of
\* generateHTML is caught and its message shown.
updatePreview(t, themeName, nonceText) ==
    LET p == ParseOf(t)
    IN  IF ~p.ok
        THEN generateErrorHTML(OrElse(p.message, PreviewFailedText), nonceText,
                               WebviewCspSource)
        ELSE IF \E k \in 1..Len(p.document) : BlockThrows(p.document[k])
        THEN generateErrorHTML(OrElse(TypeErrorText, PreviewFailedText), nonceText,
                               WebviewCspSource)
        ELSE generateHTML(p.document, themeName, nonceText, WebviewCspSource)

\* The script-src directive of the policy written into a page: its source
\* expressions.  Both pages write script-src 'nonce-${nonce}' and nothing else.
ScriptSrcOf(h) ==
    IF Count(h, " https: data:; style-src 'unsafe-inline'; script-src 'nonce-") = 1
    THEN {[kind |-> "nonce",
           value |-> Between(h, " https: data:; style-src 'unsafe-inline'; script-src 'nonce-",
                             "';")]}
    ELSE IF Count(h, "default-src 'none'; style-src 'unsafe-inline'; script-src 'nonce-") = 1
    THEN {[kind |-> "nonce",
           value |-> Between(h, "default-src 'none'; style-src 'unsafe-inline'; script-src 'nonce-",
                             "';")]}
    ELSE {}

\* The nonce attribute of the inline script element of a page.
ScriptNonceOf(h) == Between(h, "<script nonce=\"", "\">")

HasInlineScript(h) == Count(h, "<script nonce=\"") > 0

\* The refresh button, with its onclick="refresh()" attribute.
HasRefreshControl(h) == Count(h, "\" onclick=\"refresh()\">") > 0

\* Content Security Policy, inline check: a script element runs when the
\* source list holds its nonce (or 'unsafe-inline' and no nonce source); an
\* event handler attribute has no nonce, and runs only under 'unsafe-inline'
\* with no nonce source in the list, or under 'unsafe-hashes'.
AllowsScriptElement(sources, elementNonce) ==
    \/ [kind |-> "nonce", value |-> elementNonce] \in sources
    \/ /\ [kind |-> "keyword", value |-> <<"unsafe-inline">>] \in sources
       /\ \A src \in sources : src.kind # "nonce"

AllowsEventHandlerAttribute(sources) ==
    \/ /\ [kind |-> "keyword", value |-> <<"unsafe-inline">>] \in sources
       /\ \A src \in sources : src.kind # "nonce"
    \/ [kind |-> "keyword", value |-> <<"unsafe-hashes">>] \in sources

\* After previewCommand has run: the panel is open and shows the initial
\* updatePreview() of the document in the editor.
PreviewInit ==
    /\ editorText = "deck"
    /\ configTheme \in ThemePool
    /\ autoRefresh \in BOOLEAN
    /\ \E n \in NoncePool : panelHtml = updatePreview(editorText, configTheme, n)
    /\ panelOpen = TRUE
    /\ click = "none"
    /\ event = "command"
    /\ arg = NoArg
    /\ IdleCalls
    /\ IdleExt
    /\ IdleText
    /\ IdleMd
    /\ IdleGen

OnDidChangeTextDocumentStale ==
    \E own \in BOOLEAN, t \in EditorTexts, n \in NoncePool :
        /\ editorText' = IF own THEN t ELSE editorText
        /\ event' = IF own THEN "changeOwn" ELSE "changeOther"
        /\ IF own /\ panelOpen /\ autoRefresh
           THEN /\ panelHtml' = updatePreview(editorText, configTheme, n)
                /\ click' = "none"
           ELSE UNCHANGED <<panelHtml, click>>
        /\ UNCHANGED <<textVars, mdVars, genVars, arg, callVars, extVars, configTheme, autoRefresh,
                       panelOpen>>

OnDidChangeTextDocumentAnyDocument ==
    \E own \in BOOLEAN, t \in EditorTexts, n \in NoncePool :
        /\ editorText' = IF own THEN t ELSE editorText
        /\ event' = IF own THEN "changeOwn" ELSE "changeOther"
        /\ IF panelOpen /\ autoRefresh
           THEN /\ panelHtml' = updatePreview(editorText', configTheme, n)
                /\ click' = "none"
           ELSE UNCHANGED <<panelHtml, click>>
        /\ UNCHANGED <<textVars, mdVars, genVars, arg, callVars, extVars, configTheme, autoRefresh,
                       panelOpen>>

\* A text document changed: the editor's document (own, its new text t) or
\* another one.  The listener is disposed with the panel.  event names the
\* handler that ran last.
OnDidChangeTextDocument ==
    \E own \in BOOLEAN, t \in EditorTexts, n \in NoncePool :
        /\ editorText' = IF own THEN t ELSE editorText
        /\ event' = IF own THEN "changeOwn" ELSE "changeOther"
        /\ IF own /\ panelOpen /\ autoRefresh
           THEN /\ panelHtml' = updatePreview(editorText', configTheme, n)
                /\ click' = "none"
           ELSE UNCHANGED <<panelHtml, click>>
        /\ UNCHANGED <<textVars, mdVars, genVars, arg, callVars, extVars, configTheme, autoRefresh,
                       panelOpen>>

\* A message of the webview reaches the extension.
OnDidReceiveMessage ==
    \E command \in {"refresh", "other"}, n \in NoncePool :
        /\ panelOpen
        /\ event' = IF command = "refresh" THEN "refresh" ELSE "message"
        /\ IF command = "refresh"
           THEN /\ panelHtml' = updatePreview(editorText, configTheme, n)
                /\ click' = "none"
           ELSE UNCHANGED <<panelHtml, click>>
        /\ UNCHANGED <<textVars, mdVars, genVars, arg, callVars, extVars, editorText, configTheme,
                       autoRefresh, panelOpen>>

\* The user changes osf.preview.theme or osf.preview.autoRefresh.
ConfigChange ==
    /\ configTheme' \in ThemePool
    /\ autoRefresh' \in BOOLEAN
    /\ <<configTheme', autoRefresh'>> # <<configTheme, autoRefresh>>
    /\ event' = "config"
    /\ UNCHANGED <<textVars, mdVars, genVars, arg, callVars, extVars, editorText, panelHtml, panelOpen,
                   click>>

\* The user activates the refresh button of the page: refresh() runs, and
\* posts the message, when the policy of the page lets the onclick attribute
\* and the script that defines refresh run.
ClickRefresh ==
    /\ panelOpen
    /\ HasRefreshControl(panelHtml)
    /\ click' = IF /\ AllowsEventHandlerAttribute(ScriptSrcOf(panelHtml))
                   /\ AllowsScriptElement(ScriptSrcOf(panelHtml), ScriptNonceOf(panelHtml))
                THEN "posted" ELSE "blocked"
    /\ click' # click
    /\ event' = "click"
    /\ UNCHANGED <<textVars, mdVars, genVars, arg, callVars, extVars, editorText, configTheme,
                   autoRefresh, panelHtml, panelOpen>>

\* The panel is closed.
OnDidDispose ==
    /\ panelOpen
    /\ panelOpen' = FALSE
    /\ event' = "dispose"
    /\ UNCHANGED <<textVars, mdVars, genVars, arg, callVars, extVars, editorText, configTheme,
                   autoRefresh, panelHtml, click>>

PreviewNext ==
    \/ OnDidChangeTextDocument
    \/ OnDidReceiveMessage
    \/ ConfigChange
    \/ ClickRefresh
    \/ OnDidDispose

SpecPreview == PreviewInit /\ [][PreviewNext]_vars

----------------------------------------------------------------------------
(* Properties of the preview panel *)

\* The error page around the escaped message m, for the nonce n.
ErrorShell(m, n) ==
    <<"<!DOCTYPE html><html lang=\"en\"><head>",
      "<meta http-equiv=\"Content-Security-Policy\" content=\"",
      "default-src 'none'; style-src 'unsafe-inline'; script-src 'nonce-">> \o n
      \o <<"';", "\">", "<title>Parse Error</title>", "<style>", "<error css>", "</style>",
           "</head><body><div class=\"error\">", "<h1>Parse Error</h1>", "<pre>">>
      \o EscapeCharwise(m)
      \o <<"</pre>", "</div></body></html>">>

\* What the panel shows after an update for the text t: the whole page of
\* the parsed document, or the error page of the message of the failure.
ExpectedPanel(t, themeName, n) ==
    LET p == ParseOf(t)
    IN  IF ~p.ok
        THEN ErrorShell(IF p.message \in {Undefined, <<>>} THEN PreviewFailedText
                        ELSE p.message, n)
        ELSE IF t = "illtyped" THEN ErrorShell(TypeErrorText, n)
        ELSE generateHTML(p.document, themeName, n, WebviewCspSource)

IsRenderOf(h, t) ==
    \E themeName \in ThemePool, n \in NoncePool : h = ExpectedPanel(t, themeName, n)

IsErrorPage(h) ==
    /\ Count(h, "<title>Parse Error</title>") = 1
    /\ FragmentStarts(h) = <<>>
    /\ Count(h, "</div><div class=\"content\">") = 0

IsDocumentPage(h) ==
    /\ Count(h, "<title>Parse Error</title>") = 0
    /\ Count(h, "</div><div class=\"content\">") = 1
    /\ h[Len(h)] = "</script></body></html>"

\* C17: whenever the panel HTML is assigned, its new value is the complete
\* page of generateHTML for the editor's text or the error page, never a part
\* of a document; after a failure with message m the error page holds
\* escapeHtml(m), and 'Preview failed' when the error has no message.
C17_UpdateAllOrNothing ==
    /\ IsRenderOf(panelHtml, editorText)
    /\ [][ panelHtml' # panelHtml =>
             /\ IsRenderOf(panelHtml', editorText')
             /\ IsErrorPage(panelHtml') \/ IsDocumentPage(panelHtml')
             /\ IsErrorPage(panelHtml') <=>
                   (~ParseOf(editorText').ok \/ editorText' = "illtyped")
             /\ ~ParseOf(editorText').ok =>
                   Between(panelHtml', "<pre>", "</pre>") =
                       EscapeCharwise(IF ParseOf(editorText').message \in {Undefined, <<>>}
                                      THEN PreviewFailedText
                                      ELSE ParseOf(editorText').message) ]_vars

\* The parse failed with "Unexpected token at line 4".
C17_Witness ==
    /\ editorText = "broken"
    /\ IsErrorPage(panelHtml)
    /\ Between(panelHtml, "<pre>", "</pre>") = UnexpectedTokenText

\* C19: a page of generateHTML carries a policy whose script-src admits the
\* nonce of the render and nothing else, the nonce of the policy is the nonce
\* of the one inline script, and activating the refresh control under that
\* policy posts the 'refresh' message.
C19_RefreshRunsUnderPolicy ==
    (panelOpen /\ HasRefreshControl(panelHtml)) =>
        /\ ScriptSrcOf(panelHtml) = {[kind |-> "nonce", value |-> ScriptNonceOf(panelHtml)]}
        /\ Count(panelHtml, "<script nonce=\"") = 1
        /\ click # "blocked"

\* C20: with autoRefresh enabled and the panel open, the panel shows a render
\* of the editor's current text after the command has run, and no handler
\* that runs while it stays so leaves the panel showing another text.
C20_PanelFollowsText ==
    /\ IsRenderOf(panelHtml, editorText)
    /\ [][ (panelOpen /\ autoRefresh /\ IsRenderOf(panelHtml, editorText)
              /\ panelOpen' /\ autoRefresh')
           => IsRenderOf(panelHtml', editorText') ]_vars

\* After changes of the text the panel shows the error page of the text that
\* fails with the message <&>.
C20_Witness ==
    /\ panelOpen
    /\ autoRefresh
    /\ editorText = "angle"
    /\ Between(panelHtml, "<pre>", "</pre>") = <<"&", "l", "t", ";", "&", "a", "m", "p", ";",
                                                 "&", "g", "t", ";">>

\* C21: a text-change event leaves the panel HTML as it was when
\* osf.preview.autoRefresh is false or the changed document is not the
\* editor's; with auto-refresh off the panel changes only on a 'refresh'
\* message; the setting in force at the event decides, so a change of the
\* editor's document under auto-refresh on renders the new text.
C21_ChangeEventFrame ==
    [][ /\ event' = "changeOther" => panelHtml' = panelHtml
        /\ (event' = "changeOwn" /\ ~autoRefresh) => panelHtml' = panelHtml
        /\ (~autoRefresh /\ panelHtml' # panelHtml) => event' = "refresh"
        /\ (event' = "changeOwn" /\ autoRefresh /\ panelOpen)
              => IsRenderOf(panelHtml', editorText') ]_vars

\* Auto-refresh is off and the editor's document has changed: the panel
\* still shows the text it showed before.
C21_Witness ==
    /\ event = "changeOwn"
    /\ ~autoRefresh
    /\ panelOpen
    /\ editorText = "sheet"
    /\ IsRenderOf(panelHtml, "deck")
    /\ ~IsRenderOf(panelHtml, editorText)

----------------------------------------------------------------------------
(* generateHTML called again on the same document *)

CallThemes == {"default", "neon", "no-such-theme"}

CallDocuments ==
    {<<>>, <<MetaFull, DocProse>>, <<SlideContent, SheetSparse>>, <<DocProse, MetaNoTitle>>}
      \cup {<<b>> : b \in BlockPool \cup BarePool}

\* The first call, after lines 112-114.
CallInit ==
    /\ document \in CallDocuments
    /\ theme \in CallThemes
    /\ nonce \in NoncePool
    /\ cspSource = WebviewCspSource
    /\ metaBlock = FindMeta(document)
    /\ blk = 0
    /\ content = <<>>
    /\ page = <<>>
    /\ gpc = "loop"
    /\ calls = 1
    /\ prevPage = <<>>
    /\ arg = NoArg
    /\ IdlePreview
    /\ IdleExt
    /\ IdleText
    /\ IdleMd

GenAgainKeepsContent ==
    /\ gpc = "done"
    /\ calls < MaxCalls
    /\ \E themeName \in CallThemes : theme' = themeName
    /\ prevPage' = page
    /\ calls' = calls + 1
    /\ metaBlock' = FindMeta(document)
    /\ content' = content
    /\ blk' = 0
    /\ page' = <<>>
    /\ gpc' = "loop"
    /\ UNCHANGED <<textVars, mdVars, arg, previewVars, extVars, document, nonce, cspSource>>

\* The caller keeps the page and calls generateHTML again, with the same
\* document, nonce and origin and any theme name: lines 112-114 of the new
\* call.
GenAgain ==
    /\ gpc = "done"
    /\ calls < MaxCalls
    /\ \E themeName \in CallThemes : theme' = themeName
    /\ prevPage' = page
    /\ calls' = calls + 1
    /\ metaBlock' = FindMeta(document)
    /\ content' = <<>>
    /\ blk' = 0
    /\ page' = <<>>
    /\ gpc' = "loop"
    /\ UNCHANGED <<textVars, mdVars, arg, previewVars, extVars, document, nonce, cspSource>>

CallNext == GenBlock \/ GenReturn \/ GenAgain

SpecCalls == CallInit /\ [][CallNext]_vars

----------------------------------------------------------------------------
(* checkBlockStructure of src/providers/diagnosticsProvider.ts *)
(* A text is a sequence of lines (text.split('\n')), a line a sequence of   *)
(* characters.  Lines and characters of a diagnostic are zero-based, as in  *)
(* the editor; the model's indices into sequences are one-based.            *)

MaxScanLines == 3      \* lines in a text given to checkBlockStructure

QUOTE == "\""
BACKSLASH == "\\"

UnmatchedText == <<"Unmatched closing brace">>
UnclosedText  == <<"Unclosed block - missing closing brace">>
SemicolonText == <<"Property declaration should end with semicolon (;)">>
ParseErrorText == <<"Parse error">>

\* new vscode.Diagnostic(new vscode.Range(l1, c1, l2, c2), message, severity)
Diagnostic(l1, c1, l2, c2, message, severity) ==
    [startLine |-> l1, startChar |-> c1, endLine |-> l2, endChar |-> c2,
     message |-> message, severity |-> severity]

\* line[j + 1], undefined past the end of the line
NextCharOf(line, j) == IF j < Len(line) THEN line[j + 1] ELSE "undefined"

\* The body of the inner loop for the character j of the line i (one-based),
\* in the scanner state st (lines 109-149): the state after it and the index the loop
\* continues at; the break of line 114 continues past the end of the line.
\* tracked is not in the code: it names the braces the scanner treated as
\* braces (pushed, popped or reported).
ScanBody(st, line, i, j) ==
    LET char == line[j]
        nextChar == NextCharOf(line, j)
    IN  IF char = "/" /\ nextChar = "/"
        THEN [st |-> st, next |-> Len(line) + 1]
        ELSE IF char = "/" /\ nextChar = "*"
        THEN [st |-> [st EXCEPT !.inComment = TRUE], next |-> j + 2]
        ELSE IF st.inComment /\ char = "*" /\ nextChar = "/"
        THEN [st |-> [st EXCEPT !.inComment = FALSE], next |-> j + 2]
        ELSE IF st.inComment
        THEN [st |-> st, next |-> j + 1]
        ELSE IF char = QUOTE /\ (j = 1 \/ line[j - 1] # BACKSLASH)
        THEN [st |-> [st EXCEPT !.inString = ~st.inString], next |-> j + 1]
        ELSE IF st.inString
        THEN [st |-> st, next |-> j + 1]
        ELSE IF char = "{"
        THEN [st |-> [st EXCEPT !.braceStack = Append(@, i - 1),
                                !.tracked = @ \cup {<<i - 1, j - 1>>}],
              next |-> j + 1]
        ELSE IF char = "}"
        THEN [st |-> IF st.braceStack = <<>>
                     THEN [st EXCEPT !.diagnostics =
                               Append(@, Diagnostic(i - 1, j - 1, i - 1, j, UnmatchedText,
                                                    "Error")),
                                     !.tracked = @ \cup {<<i - 1, j - 1>>}]
                     ELSE [st EXCEPT !.braceStack = SubSeq(@, 1, Len(@) - 1),
                                     !.tracked = @ \cup {<<i - 1, j - 1>>}],
              next |-> j + 1]
        ELSE [st |-> st, next |-> j + 1]

\* The state of the scanner before the first line (lines 100-102).
ScanStart ==
    [braceStack |-> <<>>, inString |-> FALSE, inComment |-> FALSE, diagnostics |-> <<>>,
     tracked |-> {}]

\* The inner loop from the character j of the line i on.
RECURSIVE ScanLineFrom(_, _, _, _)
ScanLineFrom(st, line, i, j) ==
    IF j > Len(line) THEN st
    ELSE LET b == ScanBody(st, line, i, j)
         IN  ScanLineFrom(b.st, line, i, b.next)

\* The outer loop from the line i on.
RECURSIVE ScanLinesFrom(_, _, _)
ScanLinesFrom(st, ls, i) ==
    IF i > Len(ls) THEN st
    ELSE ScanLinesFrom(ScanLineFrom(st, ls[i], i, 1), ls, i + 1)

\* Lines 153-161: the diagnostics after the loops.
ScanEnd(st, ls) ==
    IF Len(st.braceStack) > 0
    THEN LET line == st.braceStack[Len(st.braceStack)]
         IN  Append(st.diagnostics,
                    Diagnostic(line, 0, line, Len(ls[line + 1]), UnclosedText, "Error"))
    ELSE st.diagnostics

\* The diagnostics checkBlockStructure pushes for the lines ls.
checkBlockStructure(ls) == ScanEnd(ScanLinesFrom(ScanStart, ls, 1), ls)

\* Lines of the texts scanned: braces alone, in line and block comments, in
\* strings, after an escaped quote, and comment markers in strings and in
\* block comments.
ScanLinePool ==
    { <<"{">>, <<"}">>, <<"a", "{", "}", "}">>,
      <<"/", "/", "}">>,
      <<"/", "*", "{">>,
      <<"*", "/", "}">>,
      <<QUOTE, "{", QUOTE>>,
      <<QUOTE, BACKSLASH, QUOTE, "}", QUOTE>>,
      <<QUOTE, "/", "/", QUOTE>>,
      <<"/", "*", "/", "/", "*", "/">> }

ScanTexts == UNION {[1..k -> ScanLinePool] : k \in 1..MaxScanLines}

\* checkBlockStructure is entered with the text of a document that parsed.
ScanInit ==
    /\ scanText \in ScanTexts
    /\ scanLine = 1
    /\ scanChar = 1
    /\ braceStack = <<>>
    /\ inString = FALSE
    /\ inComment = FALSE
    /\ diagnostics = <<>>
    /\ tracked = {}
    /\ scanpc = "scan"
    /\ arg = NoArg
    /\ IdlePreview
    /\ IdleCalls
    /\ IdleSheet
    /\ IdleDiag
    /\ IdlePanels
    /\ IdleFmt
    /\ IdleWelcome
    /\ IdleText
    /\ IdleMd
    /\ IdleGen

ScanState ==
    [braceStack |-> braceStack, inString |-> inString, inComment |-> inComment,
     diagnostics |-> diagnostics, tracked |-> tracked]

\* One pass of the inner loop (lines 108-150).
ScanCharStep ==
    /\ scanpc = "scan"
    /\ scanLine <= Len(scanText)
    /\ scanChar <= Len(scanText[scanLine])
    /\ LET b == ScanBody(ScanState, scanText[scanLine], scanLine, scanChar)
       IN  /\ braceStack' = b.st.braceStack
           /\ inString' = b.st.inString
           /\ inComment' = b.st.inComment
           /\ diagnostics' = b.st.diagnostics
           /\ tracked' = b.st.tracked
           /\ scanChar' = b.next
    /\ UNCHANGED <<textVars, mdVars, genVars, arg, previewVars, callVars, welcomeVars, fmtVars, sheetVars, diagVars, panelVars, scanText, scanLine,
                   scanpc>>

\* The inner loop ends: the outer loop goes to the next line (line 104).
ScanNextLine ==
    /\ scanpc = "scan"
    /\ scanLine <= Len(scanText)
    /\ scanChar > Len(scanText[scanLine])
    /\ scanLine' = scanLine + 1
    /\ scanChar' = 1
    /\ UNCHANGED <<textVars, mdVars, genVars, arg, previewVars, callVars, welcomeVars, fmtVars, sheetVars, diagVars, panelVars, scanText, braceStack,
                   inString, inComment, diagnostics, tracked, scanpc>>

\* The outer loop ends: the check for braces left open (lines 153-161).
ScanFinish ==
    /\ scanpc = "scan"
    /\ scanLine > Len(scanText)
    /\ diagnostics' = ScanEnd(ScanState, scanText)
    /\ scanpc' = "done"
    /\ UNCHANGED <<textVars, mdVars, genVars, arg, previewVars, callVars, welcomeVars, fmtVars, sheetVars, diagVars, panelVars, scanText, scanLine,
                   scanChar, braceStack, inString, inComment, tracked>>

ScanNext == ScanCharStep \/ ScanNextLine \/ ScanFinish

SpecScan == ScanInit /\ [][ScanNext]_vars

\* The text read as the language is written: a quote not preceded by a
\* backslash opens and closes a string, /* opens a comment that the next */
\* closes, // starts a comment that ends with the line; inside a string or a
\* comment nothing else is a marker.  braces lists the braces outside
\* strings and comments, in order, with their zero-based places.
RECURSIVE LexLineFrom(_, _, _, _)
LexLineFrom(st, line, i, j) ==
    IF j > Len(line) THEN st
    ELSE LET char == line[j]
             nextChar == NextCharOf(line, j)
             quote == char = QUOTE /\ (j = 1 \/ line[j - 1] # BACKSLASH)
         IN  IF st.inComment
             THEN IF char = "*" /\ nextChar = "/"
                  THEN LexLineFrom([st EXCEPT !.inComment = FALSE], line, i, j + 2)
                  ELSE LexLineFrom(st, line, i, j + 1)
             ELSE IF st.inString
             THEN IF quote
                  THEN LexLineFrom([st EXCEPT !.inString = FALSE], line, i, j + 1)
                  ELSE LexLineFrom(st, line, i, j + 1)
             ELSE IF char = "/" /\ nextChar = "/" THEN st
             ELSE IF char = "/" /\ nextChar = "*"
             THEN LexLineFrom([st EXCEPT !.inComment = TRUE], line, i, j + 2)
             ELSE IF quote
             THEN LexLineFrom([st EXCEPT !.inString = TRUE], line, i, j + 1)
             ELSE IF char \in {"{", "}"}
             THEN LexLineFrom([st EXCEPT !.braces =
                                  Append(@, [line |-> i - 1, col |-> j - 1, char |-> char])],
                              line, i, j + 1)
             ELSE LexLineFrom(st, line, i, j + 1)

RECURSIVE LexLinesFrom(_, _, _, _)
LexLinesFrom(st, ls, i, last) ==
    IF i > last THEN st
    ELSE LexLinesFrom(LexLineFrom(st, ls[i], i, 1), ls, i + 1, last)

\* The reading of the first n lines of ls.
LexOf(ls, n) ==
    LexLinesFrom([inString |-> FALSE, inComment |-> FALSE, braces |-> <<>>], ls, 1, n)

\* The diagnostics the braces bs call for, from the brace k on: stack holds
\* the lines of the braces open.
RECURSIVE BraceDiagnostics(_, _, _, _, _)
BraceDiagnostics(bs, k, stack, diags, ls) ==
    IF k > Len(bs)
    THEN IF stack = <<>> THEN diags
         ELSE Append(diags, Diagnostic(stack[Len(stack)], 0, stack[Len(stack)],
                                       Len(ls[stack[Len(stack)] + 1]), UnclosedText, "Error"))
    ELSE IF bs[k].char = "{"
    THEN BraceDiagnostics(bs, k + 1, Append(stack, bs[k].line), diags, ls)
    ELSE IF stack = <<>>
    THEN BraceDiagnostics(bs, k + 1, stack,
                          Append(diags, Diagnostic(bs[k].line, bs[k].col, bs[k].line,
                                                   bs[k].col + 1, UnmatchedText, "Error")), ls)
    ELSE BraceDiagnostics(bs, k + 1, SubSeq(stack, 1, Len(stack) - 1), diags, ls)

\* C22: for a text that parsed, the brace check reports exactly: one Error
\* 'Unmatched closing brace' at each '}' outside strings and comments met
\* while no '{' is open, every other '}' closing the '{' opened last, and at
\* the end one Error 'Unclosed block - missing closing brace' iff a '{' is
\* still open, on the line of the '{' opened last among those.
C22_BraceReportExact ==
    scanpc = "done" =>
        diagnostics = BraceDiagnostics(LexOf(scanText, Len(scanText)).braces, 1, <<>>, <<>>,
                                       scanText)

\* C26: the scanner treats as braces exactly the braces outside strings and
\* comments, and at the start of every line its in-string and in-comment
\* flags are those of the text read so far.
C26_ScannerIgnoresExactly ==
    /\ (scanpc = "scan" /\ scanChar = 1) =>
          /\ inString = LexOf(scanText, scanLine - 1).inString
          /\ inComment = LexOf(scanText, scanLine - 1).inComment
    /\ scanpc = "done" =>
          tracked = {<<b.line, b.col>> : b \in
                        {LexOf(scanText, Len(scanText)).braces[k] :
                            k \in 1..Len(LexOf(scanText, Len(scanText)).braces)}}

----------------------------------------------------------------------------
(* The row and column loops of generateSheetHTML (lines 234-246) *)

MaxSheetIter == 4      \* rows and cells of a row the model follows a loop for

SheetLoopEntries ==
    { << <<"1", ",", "1">>, <<"a">> >>,
      << <<"2", ",", "2">>, <<"<">> >>,
      << <<"3", ",", "1">>, <<"c">> >>,
      << <<"a", "b", "c">>, <<"m">> >>,
      << InfinityText \o <<",", "1">>, <<"i">> >>,
      << <<"1", ",">> \o InfinityText, <<"j">> >> }

\* Lines 234-237 have run on a block with data: coords, maxRow and maxCol
\* are computed and the row loop is entered with r = 1.
SheetLoopInit ==
    /\ sheetData \in (SUBSET SheetLoopEntries) \ {{}}
    /\ loopMaxRow = Max({CoordOr1(k, 1) : k \in DataKeys(sheetData)})
    /\ loopMaxCol = Max({CoordOr1(k, 2) : k \in DataKeys(sheetData)})
    /\ sheetRow = 1
    /\ sheetCol = 0
    /\ sheetHtml = <<>>
    /\ sheetpc = "rows"
    /\ arg = NoArg
    /\ IdlePreview
    /\ IdleCalls
    /\ IdleScan
    /\ IdleDiag
    /\ IdlePanels
    /\ IdleFmt
    /\ IdleWelcome
    /\ IdleText
    /\ IdleMd
    /\ IdleGen

\* for (let r = 1; r <= maxRow; r++) { html += '<tr>'; ...
SheetRowOpen ==
    /\ sheetpc = "rows"
    /\ sheetRow <= loopMaxRow
    /\ sheetRow <= MaxSheetIter
    /\ sheetHtml' = sheetHtml \o <<"<tr>">>
    /\ sheetCol' = 1
    /\ sheetpc' = "cells"
    /\ UNCHANGED <<textVars, mdVars, genVars, arg, previewVars, callVars, welcomeVars, fmtVars, scanVars, diagVars, panelVars, sheetData,
                   loopMaxRow, loopMaxCol, sheetRow>>

\* for (let c = 1; c <= maxCol; c++) { html += `<td>...</td>` }
SheetCell ==
    /\ sheetpc = "cells"
    /\ sheetCol <= loopMaxCol
    /\ sheetCol <= MaxSheetIter
    /\ sheetHtml' = sheetHtml \o <<"<td>">>
                      \o escapeHtml(CellText(sheetData, sheetRow, sheetCol)) \o <<"</td>">>
    /\ sheetCol' = sheetCol + 1
    /\ UNCHANGED <<textVars, mdVars, genVars, arg, previewVars, callVars, welcomeVars, fmtVars, scanVars, diagVars, panelVars, sheetData,
                   loopMaxRow, loopMaxCol, sheetRow, sheetpc>>

\* The column loop ends: html += '</tr>' and r++.
SheetRowClose ==
    /\ sheetpc = "cells"
    /\ sheetCol > loopMaxCol
    /\ sheetHtml' = sheetHtml \o <<"</tr>">>
    /\ sheetRow' = sheetRow + 1
    /\ sheetpc' = "rows"
    /\ UNCHANGED <<textVars, mdVars, genVars, arg, previewVars, callVars, welcomeVars, fmtVars, scanVars, diagVars, panelVars, sheetData,
                   loopMaxRow, loopMaxCol, sheetCol>>

\* The row loop ends.
SheetLoopExit ==
    /\ sheetpc = "rows"
    /\ sheetRow > loopMaxRow
    /\ sheetpc' = "done"
    /\ UNCHANGED <<textVars, mdVars, genVars, arg, previewVars, callVars, welcomeVars, fmtVars, scanVars, diagVars, panelVars, sheetData,
                   loopMaxRow, loopMaxCol, sheetRow, sheetCol, sheetHtml>>

SheetLoopNext == SheetRowOpen \/ SheetCell \/ SheetRowClose \/ SheetLoopExit

SpecSheetLoop == SheetLoopInit /\ [][SheetLoopNext]_vars

\* C24: the row and column loops of generateSheetHTML end for every data
\* mapping: their bounds maxRow and maxCol are finite numbers, so that the
\* loops, which count up from 1 by one, run maxRow and maxCol times, and
\* when the loops are left the table has maxRow rows of maxCol cells.
C24_SheetLoopsTerminate ==
    /\ sheetpc \in {"rows", "cells"} => (loopMaxRow < Infinity /\ loopMaxCol < Infinity)
    /\ sheetpc = "done" =>
          /\ Count(sheetHtml, "<tr>") = loopMaxRow
          /\ Count(sheetHtml, "<td>") = loopMaxRow * loopMaxCol

----------------------------------------------------------------------------
(* DiagnosticsProvider of src/providers/diagnosticsProvider.ts *)

\* The letters of /line (\d+)/i without their case.
Lower(u) ==
    CASE u = "L" -> "l" [] u = "I" -> "i" [] u = "N" -> "n" [] u = "E" -> "e"
      [] OTHER -> u

\* /line (\d+)/i matches at the place k of the message m.
LineMatchesAt(m, k) ==
    /\ k + 5 <= Len(m)
    /\ [n \in 1..5 |-> Lower(m[k + n - 1])] = <<"l", "i", "n", "e", " ">>
    /\ IsDigit(m[k + 5])

\* The longest run of digits of m from the place k on.
RECURSIVE DigitRun(_, _)
DigitRun(m, k) ==
    IF k <= Len(m) /\ IsDigit(m[k]) THEN <<m[k]>> \o DigitRun(m, k + 1) ELSE <<>>

\* error.message?.match(/line (\d+)/i): the digits of the first match, <<>>
\* when there is none or no message.
LineMatch(message) ==
    IF message = Undefined \/ \A k \in 1..Len(message) : ~LineMatchesAt(message, k)
    THEN <<>>
    ELSE DigitRun(message, Min({k \in 1..Len(message) : LineMatchesAt(message, k)}) + 5)

\* const line = lineMatch ? parseInt(lineMatch[1], 10) - 1 : 0
ErrorLine(message) ==
    IF LineMatch(message) # <<>> THEN DigitsValue(LineMatch(message)) - 1 ELSE 0

\* new vscode.Position(line, 0) raises for a negative line.
createDiagnosticFromErrorThrows(ls, message) == ErrorLine(message) < 0

\* The diagnostic of a parse error for the document of lines ls.
createDiagnosticFromError(ls, message) ==
    LET line == ErrorLine(message)
    IN  Diagnostic(line, 0, line, Len(ls[Min({line, Len(ls) - 1}) + 1]),
                   OrElse(message, ParseErrorText), "Error")
            @@ [source |-> "osf"]

\* line.startsWith(p), line.endsWith(p)
StartsWith(line, p) == Len(line) >= Len(p) /\ SubSeq(line, 1, Len(p)) = p
EndsWithText(line, p) ==
    Len(line) >= Len(p) /\ SubSeq(line, Len(line) - Len(p) + 1, Len(line)) = p

\* Lines 168-184, for the line i (one-based) of ls.
PropertyWarning(ls, i) ==
    LET line == Trim(ls[i])
    IN  IF /\ \E k \in 1..Len(line) : line[k] = ":"
           /\ ~StartsWith(line, <<"/", "/">>)
           /\ ~StartsWith(line, <<"#">>)
           /\ ~EndsWithText(line, <<";">>)
           /\ ~EndsWithText(line, <<"{">>)
           /\ line # <<>>
           /\ line[1] # ":"
        THEN <<Diagnostic(i - 1, 0, i - 1, Len(line), SemicolonText, "Warning")>>
        ELSE <<>>

checkPropertySyntax(ls) == Concat([i \in 1..Len(ls) |-> PropertyWarning(ls, i)])

\* A document: its language, whether it is open, and its text, which is its
\* lines together with what parse makes of it: message is NoError when the
\* text parses, else the message of the error (Undefined for an error
\* without one).
NoError == <<"no error">>

TextOf(ls, message) == [lines |-> ls, message |-> message]

DiagTexts ==
    { TextOf(<< <<"{">>, <<"a", ":", "b", ";">>, <<"}">> >>, NoError),
      TextOf(<< <<"{">>, <<" ", "a", ":", "b">> >>, NoError),
      TextOf(<< <<"}">>, <<"/", "/", "a", ":">> >>, NoError),
      TextOf(<< <<"{">>, <<"{">> >>,
             <<"e", "r", "r", " ", "a", "t", " ", "l", "i", "n", "e", " ", "2">>),
      TextOf(<< <<"{">>, <<"{">> >>, <<"L", "i", "n", "e", " ", "1", ":", "x">>),
      TextOf(<< <<"{">> >>, <<"b", "a", "d">>),
      TextOf(<< <<"{">> >>, Undefined),
      TextOf(<< <<"{">>, <<"a">> >>,
             <<"l", "i", "n", "e", " ", "x", " ", "l", "i", "n", "e", " ", "2">>),
      TextOf(<< <<"{">> >>, <<"l", "i", "n", "e", " ", "1", "2">>),
      TextOf(<< <<"{">>, <<"a">> >>, <<"l", "i", "n", "e", " ", "0">>) }

OsfUri == "a.osf"
OtherUri == "notes.md"
Uris == {OsfUri, OtherUri}

LanguageId(uri) == IF uri = OsfUri THEN "osf" ELSE "markdown"

\* The texts a document can hold.
TextsOf(uri) ==
    IF uri = OsfUri THEN DiagTexts
    ELSE {t \in DiagTexts : t.lines = << <<"{">> >> /\ t.message \in {NoError, Undefined}}
            \cup {TextOf(<< <<"}">>, <<"/", "/", "a", ":">> >>, NoError)}

\* What updateDiagnostics(document) does: it returns early ("skipped"), sets
\* the diagnostics of the document ("set") or raises before it sets them.
updateDiagnostics(uri, txt, enabled, stored) ==
    IF LanguageId(uri) # "osf" \/ ~enabled
    THEN [kind |-> "skipped", diagnostics |-> stored]
    ELSE IF txt.message = NoError
    THEN [kind |-> "set",
          diagnostics |-> checkBlockStructure(txt.lines) \o checkPropertySyntax(txt.lines)]
    ELSE IF createDiagnosticFromErrorThrows(txt.lines, txt.message)
    THEN [kind |-> "raised", diagnostics |-> stored]
    ELSE [kind |-> "set",
          diagnostics |-> <<createDiagnosticFromError(txt.lines, txt.message)>>]

\* Before the extension is activated: documents may be open, nothing is
\* stored for them.
DiagInit ==
    /\ lintingEnabled \in BOOLEAN
    /\ provider = "inactive"
    /\ docs \in [Uris -> [open : BOOLEAN, text : {CHOOSE t \in DiagTexts : t.message = NoError}]]
    /\ collection = [u \in Uris |-> <<>>]
    /\ diagEvent = [kind |-> "start", uri |-> OsfUri, result |-> "none"]
    /\ arg = NoArg
    /\ IdlePreview
    /\ IdleCalls
    /\ IdleScan
    /\ IdleSheet
    /\ IdlePanels
    /\ IdleFmt
    /\ IdleWelcome
    /\ IdleText
    /\ IdleMd
    /\ IdleGen

\* activate (lines 89-93 of extension.ts) with the constructor of the
\* provider: the listeners are registered and every open OSF document is
\* checked.  Without linting no provider is made.
Activate ==
    /\ provider = "inactive"
    /\ IF lintingEnabled
       THEN LET res == [u \in Uris |->
                          IF docs[u].open /\ LanguageId(u) = "osf"
                          THEN updateDiagnostics(u, docs[u].text, lintingEnabled, collection[u])
                          ELSE [kind |-> "skipped", diagnostics |-> collection[u]]]
            IN  /\ provider' = "listening"
                /\ collection' = [u \in Uris |-> res[u].diagnostics]
                /\ diagEvent' = [kind |-> "activate", uri |-> OsfUri,
                                 result |-> res[OsfUri].kind]
       ELSE /\ provider' = "none"
            /\ diagEvent' = [kind |-> "activate", uri |-> OsfUri, result |-> "none"]
            /\ UNCHANGED collection
    /\ UNCHANGED <<textVars, mdVars, genVars, arg, previewVars, callVars, welcomeVars, fmtVars, scanVars, sheetVars,
                   panelVars, lintingEnabled, docs>>

\* The handler of an open or change event of the document uri, whose text
\* is now txt.
DiagUpdate(kind, uri, txt) ==
    /\ docs' = [docs EXCEPT ![uri] = [open |-> TRUE, text |-> txt]]
    /\ IF provider = "listening"
       THEN LET res == updateDiagnostics(uri, txt, lintingEnabled, collection[uri])
            IN  /\ collection' = [collection EXCEPT ![uri] = res.diagnostics]
                /\ diagEvent' = [kind |-> kind, uri |-> uri, result |-> res.kind]
       ELSE /\ UNCHANGED collection
            /\ diagEvent' = [kind |-> kind, uri |-> uri, result |-> "none"]
    /\ UNCHANGED <<textVars, mdVars, genVars, arg, previewVars, callVars, welcomeVars, fmtVars, scanVars, sheetVars,
                   panelVars, lintingEnabled, provider>>

\* vscode.workspace.onDidOpenTextDocument
DidOpenTextDocument ==
    \E uri \in Uris :
      \E txt \in TextsOf(uri) :
        /\ ~docs[uri].open
        /\ DiagUpdate("open", uri, txt)

\* vscode.workspace.onDidChangeTextDocument
DidChangeTextDocument ==
    \E uri \in Uris :
      \E txt \in TextsOf(uri) :
        /\ docs[uri].open
        /\ DiagUpdate("change", uri, txt)

\* vscode.workspace.onDidCloseTextDocument
DidCloseTextDocument ==
    \E uri \in Uris :
        /\ docs[uri].open
        /\ docs' = [docs EXCEPT ![uri].open = FALSE]
        /\ diagEvent' = [kind |-> "close", uri |-> uri,
                         result |-> IF provider = "listening" THEN "deleted" ELSE "none"]
        /\ IF provider = "listening"
           THEN collection' = [collection EXCEPT ![uri] = <<>>]
           ELSE UNCHANGED collection
        /\ UNCHANGED <<textVars, mdVars, genVars, arg, previewVars, callVars, welcomeVars, fmtVars, scanVars,
                       sheetVars, panelVars, lintingEnabled, provider>>

\* The user changes osf.linting.enabled: the extension listens to no
\* configuration event.
LintingConfigChange ==
    /\ lintingEnabled' = ~lintingEnabled
    /\ diagEvent' = [kind |-> "config", uri |-> OsfUri, result |-> "none"]
    /\ UNCHANGED <<textVars, mdVars, genVars, arg, previewVars, callVars, welcomeVars, fmtVars, scanVars, sheetVars,
                   panelVars, provider, docs, collection>>

DiagNext ==
    \/ Activate
    \/ DidOpenTextDocument
    \/ DidChangeTextDocument
    \/ DidCloseTextDocument
    \/ LintingConfigChange

SpecDiag == DiagInit /\ [][DiagNext]_vars

\* C23: while osf.linting.enabled is false no document shows diagnostics of
\* the extension, and an open or change event leaves the collection as it
\* was.
C23_NoDiagnosticsWhileDisabled ==
    /\ [](~lintingEnabled => \A u \in Uris : collection[u] = <<>>)
    /\ [][ (~lintingEnabled /\ diagEvent'.kind \in {"open", "change"})
              => collection' = collection ]_vars

\* C25: after an update of a document whose text fails to parse, the
\* document has the one diagnostic of the error, an Error with the message
\* of the error, on the line N-1 for the first 'line N' of the message and
\* on line 0 without one; that line is a line of the document, and the
\* update has not raised.
C25_ParseErrorDiagnostic ==
    LET uri == diagEvent.uri
        txt == docs[uri].text
    IN  (/\ diagEvent.kind \in {"activate", "open", "change"}
         /\ diagEvent.result \in {"set", "raised"}
         /\ docs[uri].open
         /\ txt.message # NoError)
        => /\ diagEvent.result = "set"
           /\ Len(collection[uri]) = 1
           /\ collection[uri][1].severity = "Error"
           /\ collection[uri][1].message = OrElse(txt.message, ParseErrorText)
           /\ collection[uri][1].startLine = ErrorLine(txt.message)
           /\ collection[uri][1].endLine = ErrorLine(txt.message)
           /\ collection[uri][1].startLine >= 0
           /\ collection[uri][1].startLine < Len(txt.lines)

\* The diagnostics of a text: those of the structural checks when it
\* parses, the one of the error when it does not.
DiagnosticsOfText(txt) ==
    IF txt.message = NoError
    THEN checkBlockStructure(txt.lines) \o checkPropertySyntax(txt.lines)
    ELSE <<createDiagnosticFromError(txt.lines, txt.message)>>

\* C27: with linting enabled, every open or change event of an OSF document
\* leaves stored for it exactly the diagnostics of its new text, a close
\* event leaves none, and a document of another language never has any.
C27_StoredAreLatest ==
    [][ /\ (/\ diagEvent'.kind \in {"open", "change"}
            /\ provider = "listening"
            /\ lintingEnabled
            /\ LanguageId(diagEvent'.uri) = "osf")
           => /\ diagEvent'.result = "set"
              /\ collection'[diagEvent'.uri] = DiagnosticsOfText(docs'[diagEvent'.uri].text)
        /\ (diagEvent'.kind = "close" /\ provider = "listening")
           => collection'[diagEvent'.uri] = <<>>
        /\ collection'[OtherUri] = <<>> ]_vars

----------------------------------------------------------------------------
(* previewCommand and the panels it creates (lines 24-97) *)

MaxPanels == 2      \* panels created by previewCommand

NoEditorText == <<"No active editor">>
NotOsfText   == <<"Current file is not an OSF document">>

\* vscode.window.activeTextEditor: none, or an editor on a document.
Editors == {"none", OsfUri, OtherUri}

PanelTexts == {"deck", "broken"}

\* Before the first osf.preview command.  editorText is the text of the OSF
\* document.
PanelInit ==
    /\ activeEditor \in Editors
    /\ panels = <<>>
    /\ shownError = <<>>
    /\ panelEvent = [kind |-> "start", ran |-> {}]
    /\ editorText = "deck"
    /\ autoRefresh \in BOOLEAN
    /\ configTheme = "default"
    /\ panelHtml = <<>> /\ panelOpen = FALSE /\ click = "none" /\ event = "none"
    /\ arg = NoArg
    /\ IdleCalls
    /\ IdleScan
    /\ IdleSheet
    /\ IdleDiag
    /\ IdleFmt
    /\ IdleWelcome
    /\ IdleText
    /\ IdleMd
    /\ IdleGen

\* previewCommand: the command returns with an error message, or creates a
\* panel, renders into it (line 70) and registers the listeners.
PreviewCommand ==
    /\ Len(panels) < MaxPanels
    /\ IF activeEditor = "none"
       THEN /\ shownError' = NoEditorText
            /\ panelEvent' = [kind |-> "command", ran |-> {}]
            /\ UNCHANGED panels
       ELSE IF LanguageId(activeEditor) # "osf"
       THEN /\ shownError' = NotOsfText
            /\ panelEvent' = [kind |-> "command", ran |-> {}]
            /\ UNCHANGED panels
       ELSE \E n \in NoncePool :
            /\ panels' = Append(panels,
                                [document |-> activeEditor, disposed |-> FALSE,
                                 changeListener |-> TRUE,
                                 html |-> updatePreview(editorText, configTheme, n)])
            /\ panelEvent' = [kind |-> "command", ran |-> {Len(panels) + 1}]
            /\ UNCHANGED shownError
    /\ UNCHANGED <<textVars, mdVars, genVars, arg, previewVars, callVars, welcomeVars, fmtVars, scanVars, sheetVars,
                   diagVars, activeEditor>>

\* The user moves to another editor, or closes the last one.
ChangeActiveEditor ==
    /\ activeEditor' \in Editors \ {activeEditor}
    /\ panelEvent' = [kind |-> "editor", ran |-> {}]
    /\ UNCHANGED <<textVars, mdVars, genVars, arg, previewVars, callVars, welcomeVars, fmtVars, scanVars, sheetVars,
                   diagVars, panels, shownError>>

\* The listeners of the panels that a change of the document uri reaches
\* and that call updatePreview (lines 73-80).
Refreshing(uri) ==
    {k \in 1..Len(panels) :
        panels[k].changeListener /\ panels[k].document = uri /\ autoRefresh}

\* A text document changed: every change listener still registered runs.
PanelTextChange ==
    \E uri \in {OsfUri, OtherUri}, t \in PanelTexts :
      \E ns \in [Refreshing(uri) -> NoncePool] :
        /\ editorText' = IF uri = OsfUri THEN t ELSE editorText
        /\ panels' = [k \in 1..Len(panels) |->
                        IF k \in Refreshing(uri)
                        THEN [panels[k] EXCEPT !.html =
                                 updatePreview(editorText', configTheme, ns[k])]
                        ELSE panels[k]]
        /\ panelEvent' = [kind |-> "change", ran |-> Refreshing(uri)]
        /\ UNCHANGED <<textVars, mdVars, genVars, arg, callVars, fmtVars, welcomeVars, scanVars, sheetVars, diagVars,
                       configTheme, autoRefresh, panelHtml, panelOpen, click, event,
                       activeEditor, shownError>>

PanelDisposeKeepsListener ==
    \E k \in 1..Len(panels) :
        /\ ~panels[k].disposed
        /\ panels' = [panels EXCEPT ![k].disposed = TRUE]
        /\ panelEvent' = [kind |-> "dispose", ran |-> {}]
        /\ UNCHANGED <<textVars, mdVars, genVars, arg, previewVars, callVars, welcomeVars, fmtVars, scanVars,
                       sheetVars, diagVars, activeEditor, shownError>>

\* A panel is closed: its onDidDispose handler disposes the change listener
\* (lines 83-85).
PanelDispose ==
    \E k \in 1..Len(panels) :
        /\ ~panels[k].disposed
        /\ panels' = [panels EXCEPT ![k].disposed = TRUE, ![k].changeListener = FALSE]
        /\ panelEvent' = [kind |-> "dispose", ran |-> {}]
        /\ UNCHANGED <<textVars, mdVars, genVars, arg, previewVars, callVars, welcomeVars, fmtVars, scanVars,
                       sheetVars, diagVars, activeEditor, shownError>>

PanelNext == PreviewCommand \/ ChangeActiveEditor \/ PanelTextChange \/ PanelDispose

SpecPanels == PanelInit /\ [][PanelNext]_vars

----------------------------------------------------------------------------
(* FormattingProvider.provideDocumentFormattingEdits *)

MaxFmtLines == 3      \* lines of a document given to the formatter
MaxFormats  == 2      \* times the document is formatted

\* s.repeat(n)
RECURSIVE Repeat(_, _)
Repeat(s, n) == IF n <= 0 THEN <<>> ELSE s \o Repeat(s, n - 1)

\* const indentChar = options.insertSpaces ? ' '.repeat(options.tabSize) : '\t'
IndentChar(options) ==
    IF options.insertSpaces THEN Repeat(<<" ">>, options.tabSize) ELSE <<"\t">>

\* line.match(/^(\s*)/)?.[1] || ''
CurrentIndent(line) == SubSeq(line, 1, Len(line) - Len(TrimStart(line)))

\* vscode.TextEdit.replace(new vscode.Range(i, 0, i, n), newText)
TextEdit(i, n, newText) ==
    [line |-> i, startChar |-> 0, endChar |-> n, newText |-> newText]

FormatLineDecreaseAfter(ls, i, indentLevel, indentChar) ==
    LET line == ls[i]
        trimmed == Trim(line)
    IN  IF trimmed = <<>> \/ StartsWith(trimmed, <<"/", "/">>)
        THEN [skip |-> TRUE, expectedIndent |-> <<>>, level |-> indentLevel]
        ELSE LET level == IF StartsWith(trimmed, <<"}">>)
                          THEN Max({0, indentLevel - 1}) ELSE indentLevel
             IN  [skip |-> FALSE, expectedIndent |-> Repeat(indentChar, indentLevel),
                  level |-> IF EndsWithText(trimmed, <<"{">>) THEN level + 1 ELSE level]

\* One pass of the loop (lines 245-276) for the line i (one-based) at the
\* indent level indentLevel: whether the line is skipped, the indentation
\* expected for it, and the level after it.
FormatLine(ls, i, indentLevel, indentChar) ==
    LET line == ls[i]
        trimmed == Trim(line)
    IN  IF trimmed = <<>> \/ StartsWith(trimmed, <<"/", "/">>)
        THEN [skip |-> TRUE, expectedIndent |-> <<>>, level |-> indentLevel]
        ELSE LET level == IF StartsWith(trimmed, <<"}">>)
                          THEN Max({0, indentLevel - 1}) ELSE indentLevel
             IN  [skip |-> FALSE, expectedIndent |-> Repeat(indentChar, level),
                  level |-> IF EndsWithText(trimmed, <<"{">>) THEN level + 1 ELSE level]

\* The edits pushed from the line i on.
RECURSIVE FormatFrom(_, _, _, _)
FormatFrom(ls, i, indentLevel, indentChar) ==
    IF i > Len(ls) THEN <<>>
    ELSE LET f == FormatLine(ls, i, indentLevel, indentChar)
         IN  (IF ~f.skip /\ CurrentIndent(ls[i]) # f.expectedIndent
              THEN <<TextEdit(i - 1, Len(CurrentIndent(ls[i])), f.expectedIndent)>>
              ELSE <<>>)
               \o FormatFrom(ls, i + 1, f.level, indentChar)

provideDocumentFormattingEdits(ls, options) == FormatFrom(ls, 1, 0, IndentChar(options))

\* The editor applies the edits: each replaces the characters
\* startChar..endChar of its line.
ApplyTextEdits(ls, edits) ==
    [i \in 1..Len(ls) |->
        IF \E k \in 1..Len(edits) : edits[k].line = i - 1
        THEN LET e == edits[CHOOSE k \in 1..Len(edits) : edits[k].line = i - 1]
             IN  SubSeq(ls[i], 1, e.startChar) \o e.newText
                   \o SubSeq(ls[i], e.endChar + 1, Len(ls[i]))
        ELSE ls[i]]

FmtLinePool ==
    { <<"a", "{">>, <<" ", "}">>, <<"\t", " ", "a", " ">>, <<"}", "a", "{", "\r">>,
      <<>>, <<" ", "\t">>, <<" ", "/", "/", "{">>, <<"{", "}">> }

FmtOptions ==
    { [insertSpaces |-> TRUE, tabSize |-> 2], [insertSpaces |-> FALSE, tabSize |-> 4] }

\* A document is open; the formatter has not run.
FmtInit ==
    /\ fmtLines \in UNION {[1..k -> FmtLinePool] : k \in 1..MaxFmtLines}
    /\ fmtOriginal = fmtLines
    /\ fmtOptions \in FmtOptions
    /\ fmtEdits = <<>>
    /\ fmtPasses = 0
    /\ fmtpc = "document"
    /\ arg = NoArg
    /\ IdlePreview
    /\ IdleCalls
    /\ IdleScan
    /\ IdleSheet
    /\ IdleDiag
    /\ IdlePanels
    /\ IdleWelcome
    /\ IdleText
    /\ IdleMd
    /\ IdleGen

\* The editor asks for the formatting edits of the document.
ProvideDocumentFormattingEdits ==
    /\ fmtpc = "document"
    /\ fmtPasses < MaxFormats
    /\ fmtEdits' = provideDocumentFormattingEdits(fmtLines, fmtOptions)
    /\ fmtPasses' = fmtPasses + 1
    /\ fmtpc' = "edits"
    /\ UNCHANGED <<textVars, mdVars, genVars, arg, previewVars, callVars, welcomeVars, scanVars, sheetVars,
                   diagVars, panelVars, fmtLines, fmtOriginal, fmtOptions>>

\* The editor applies the edits it was given.
ApplyFormattingEdits ==
    /\ fmtpc = "edits"
    /\ fmtLines' = ApplyTextEdits(fmtLines, fmtEdits)
    /\ fmtpc' = "document"
    /\ UNCHANGED <<textVars, mdVars, genVars, arg, previewVars, callVars, welcomeVars, scanVars, sheetVars,
                   diagVars, panelVars, fmtOriginal, fmtOptions, fmtEdits, fmtPasses>>

FmtNext == ProvideDocumentFormattingEdits \/ ApplyFormattingEdits

SpecFmt == FmtInit /\ [][FmtNext]_vars

\* A line the formatter passes over: blank, or a // comment.
IsSkipped(line) == Trim(line) = <<>> \/ StartsWith(Trim(line), <<"/", "/">>)

\* The depth at which the line i stands: it starts at 0, goes up by one after
\* a line ending with '{' and down by one, not below 0, before a line
\* starting with '}'; the lines passed over do not count.
RECURSIVE DepthOf(_, _)
DepthOf(ls, i) ==
    LET before == IF i = 1 THEN 0
                  ELSE IF IsSkipped(ls[i - 1]) THEN DepthOf(ls, i - 1)
                  ELSE DepthOf(ls, i - 1)
                         + (IF Trim(ls[i - 1])[Len(Trim(ls[i - 1]))] = "{" THEN 1 ELSE 0)
    IN  IF ~IsSkipped(ls[i]) /\ Trim(ls[i])[1] = "}" /\ before > 0
        THEN before - 1
        ELSE before

\* C29: formatting is idempotent: once the edits have been applied, the
\* formatter returns no edits for the result.  After the edits every line
\* that is neither blank nor a // comment is the indent unit repeated depth
\* times followed by the line without its leading whitespace, and the blank
\* lines and the // comment lines are as they were; every edit replaces the
\* leading whitespace of a line that is neither.
C29_FormatIdempotent ==
    /\ (fmtpc = "edits" /\ fmtPasses >= 2) => fmtEdits = <<>>
    /\ (fmtpc = "document" /\ fmtPasses >= 1) =>
          /\ Len(fmtLines) = Len(fmtOriginal)
          /\ \A i \in 1..Len(fmtLines) :
                IF IsSkipped(fmtOriginal[i])
                THEN fmtLines[i] = fmtOriginal[i]
                ELSE fmtLines[i] =
                        Repeat(IndentChar(fmtOptions), DepthOf(fmtOriginal, i))
                          \o TrimStart(fmtOriginal[i])
    /\ fmtpc = "edits" =>
          \A k \in 1..Len(fmtEdits) :
              LET line == fmtLines[fmtEdits[k].line + 1]
              IN  /\ ~IsSkipped(line)
                  /\ fmtEdits[k].startChar = 0
                  /\ fmtEdits[k].endChar = Len(line) - Len(TrimStart(line))
                  /\ \A c \in 1..Len(fmtEdits[k].newText) : IsWs(fmtEdits[k].newText[c])

\* A block with a closing line that opens the next block has been formatted
\* with tabs, the edits were applied, and the second formatting returns
\* nothing.
C29_Witness ==
    /\ fmtpc = "edits"
    /\ fmtPasses = 2
    /\ fmtEdits = <<>>
    /\ fmtOriginal = << <<"a", "{">>, <<"}", "a", "{", "\r">>, <<"\t", " ", "a", " ">> >>
    /\ fmtLines = << <<"a", "{">>, <<"}", "a", "{", "\r">>, <<"\t", "a", " ">> >>

----------------------------------------------------------------------------
(* The welcome message of activate (lines 129-141 of extension.ts) *)

MaxActivations == 4      \* activations of the extension

\* The windows of the editor, each with its extension host; they share the
\* global state.
Windows == {"w1", "w2"}

\* No activation yet: the key osf.hasShownWelcome is unset, or an earlier
\* installation has left it true.  The stored value is written as a text.
WelcomeInit ==
    /\ hasShownWelcome \in {"unset", "true"}
    /\ windows = [w \in Windows |-> [active |-> FALSE, welcomeOpen |-> FALSE]]
    /\ activations = <<>>
    /\ externalOpens = 0
    /\ arg = NoArg
    /\ IdlePreview
    /\ IdleCalls
    /\ IdleScan
    /\ IdleSheet
    /\ IdleDiag
    /\ IdlePanels
    /\ IdleFmt
    /\ IdleText
    /\ IdleMd
    /\ IdleGen

\* context.globalState.get('osf.hasShownWelcome', false)
GetHasShownWelcome == IF hasShownWelcome = "unset" THEN FALSE ELSE hasShownWelcome = "true"

ActivateWelcomeFlagOnSelection ==
    \E w \in Windows :
        /\ ~windows[w].active
        /\ Len(activations) < MaxActivations
        /\ windows' = [windows EXCEPT ![w] = [active |-> TRUE,
                                              welcomeOpen |-> ~GetHasShownWelcome]]
        /\ hasShownWelcome' = hasShownWelcome
        /\ activations' = Append(activations,
                                 [window |-> w, shown |-> ~GetHasShownWelcome,
                                  before |-> hasShownWelcome, after |-> hasShownWelcome'])
        /\ UNCHANGED <<textVars, mdVars, genVars, arg, previewVars, callVars, scanVars,
                       sheetVars, diagVars, panelVars, fmtVars, externalOpens>>

\* The extension is activated in a window: lines 129-141.  activations
\* records, for each activation, whether it showed the message and the value
\* of the key before and after it.
ActivateWelcome ==
    \E w \in Windows :
        /\ ~windows[w].active
        /\ Len(activations) < MaxActivations
        /\ windows' = [windows EXCEPT ![w] = [active |-> TRUE,
                                              welcomeOpen |-> ~GetHasShownWelcome]]
        /\ hasShownWelcome' = IF ~GetHasShownWelcome THEN "true" ELSE hasShownWelcome
        /\ activations' = Append(activations,
                                 [window |-> w, shown |-> ~GetHasShownWelcome,
                                  before |-> hasShownWelcome, after |-> hasShownWelcome'])
        /\ UNCHANGED <<textVars, mdVars, genVars, arg, previewVars, callVars, scanVars,
                       sheetVars, diagVars, panelVars, fmtVars, externalOpens>>

\* The user picks 'View Documentation': the callback of line 135 opens the
\* site.
SelectViewDocumentation ==
    \E w \in Windows :
        /\ windows[w].welcomeOpen
        /\ windows' = [windows EXCEPT ![w].welcomeOpen = FALSE]
        /\ externalOpens' = externalOpens + 1
        /\ UNCHANGED <<textVars, mdVars, genVars, arg, previewVars, callVars, scanVars,
                       sheetVars, diagVars, panelVars, fmtVars, hasShownWelcome, activations>>

\* The user closes the message: the callback runs with no selection.
DismissWelcome ==
    \E w \in Windows :
        /\ windows[w].welcomeOpen
        /\ windows' = [windows EXCEPT ![w].welcomeOpen = FALSE]
        /\ UNCHANGED <<textVars, mdVars, genVars, arg, previewVars, callVars, scanVars,
                       sheetVars, diagVars, panelVars, fmtVars, hasShownWelcome, activations,
                       externalOpens>>

\* The window is closed: deactivate (lines 147-149) changes nothing of the
\* global state.
Deactivate ==
    \E w \in Windows :
        /\ windows[w].active
        /\ windows' = [windows EXCEPT ![w] = [active |-> FALSE, welcomeOpen |-> FALSE]]
        /\ UNCHANGED <<textVars, mdVars, genVars, arg, previewVars, callVars, scanVars,
                       sheetVars, diagVars, panelVars, fmtVars, hasShownWelcome, activations,
                       externalOpens>>

WelcomeNext ==
    \/ ActivateWelcome
    \/ SelectViewDocumentation
    \/ DismissWelcome
    \/ Deactivate

SpecWelcome == WelcomeInit /\ [][WelcomeNext]_vars

\* C30: of the activations so far at most one has shown the welcome message;
\* an activation shows it exactly when osf.hasShownWelcome is unset before
\* it, which only the first can find; the key is true after every
\* activation, whatever was done with the message.
C30_WelcomeOnce ==
    /\ Cardinality({k \in 1..Len(activations) : activations[k].shown}) <= 1
    /\ \A k \in 1..Len(activations) :
          /\ activations[k].shown <=> activations[k].before = "unset"
          /\ activations[k].shown => k = 1
          /\ activations[k].after = "true"
    /\ Len(activations) >= 1 => hasShownWelcome = "true"
    /\ \A w \in Windows :
          windows[w].welcomeOpen =>
              \E k \in 1..Len(activations) : activations[k].shown /\ activations[k].window = w

\* The first activation showed the message and the user closed it without a
\* selection; two later activations, one of them in the other window, showed
\* nothing.
C30_Witness ==
    /\ Len(activations) = 3
    /\ activations[1].shown
    /\ activations[1].window = "w1"
    /\ activations[2].window = "w2"
    /\ ~activations[2].shown
    /\ ~activations[3].shown
    /\ externalOpens = 0
    /\ \A w \in Windows : ~windows[w].welcomeOpen
    /\ hasShownWelcome = "true"

====
